---- MODULE Spec2Model ----
(***************************************************************************)
(* Model of the disk operation layer of salvage_linux                      *)
(* (src/src/disk_utils.py, src/src/config_manager.py) and of the health    *)
(* assessment of src/src/disk_properties.py.                               *)
(*                                                                         *)
(* Paths, file system types and command names are TLA+ strings; the path   *)
(* checks scan them character by character as the Python code does.  Each  *)
(* public method of DiskUtils is one action.  A call leaves behind the     *)
(* ordered trace of what it did (validation checks, os.makedirs, spawned   *)
(* processes with their outcome) together with the tuple it returned or    *)
(* the exception that escaped it.                                          *)
(*                                                                         *)
(* DiskPropertiesAnalyzer.get_disk_properties is one action as well: the   *)
(* outputs of lsblk, smartctl and the file system check are kept as what   *)
(* the patterns of the code find in them.  The worker threads of main.py   *)
(* and the calls of Logger._write_log they make are followed step by step  *)
(* in SpecWorkers and SpecLogger, where workers[w] holds the position and  *)
(* the locals of thread w.                                                 *)
(***************************************************************************)
EXTENDS Integers, Sequences, FiniteSets, TLC

VARIABLES
    config,     \* ConfigManager.config: file_manager, file_managers_list
    dirs,       \* directories that exist (what os.path.exists answers)
    pc,         \* "idle": no call in progress; "done": a call has returned
    call,       \* the last call: operation and arguments
    trace,      \* what the last call did, in order
    result,     \* the tuple the last call returned (<<>> when it raised)
    raised,     \* the exception that escaped the last call ("" when none)
    smart_thresholds,   \* DiskPropertiesAnalyzer.smart_thresholds
    smart_info,         \* the dictionary last passed to _determine_health_status,
                        \* as the caller holds it after the call (<<>> before any)
    assessed,           \* the health statuses returned so far for each reference report
    workers,    \* the worker threads: where each one is in its call, and its locals
    logger      \* Logger._call_count and Logger.messages

vars ==
    <<config, dirs, pc, call, trace, result, raised, smart_thresholds, smart_info, assessed,
      workers, logger>>

\* What only the worker threads change.
threads == <<workers, logger>>

\* The state of the DiskPropertiesAnalyzer and of its callers.
analyzer == <<smart_thresholds, smart_info, assessed>>

(***************************************************************************)
(* Python string primitives                                                *)
(***************************************************************************)

\* s[i] as a one-character string (1-based)
CharAt(s, i) == SubSeq(s, i, i)

\* sub in s
Contains(s, sub) ==
    \E i \in 1..(Len(s) - Len(sub) + 1) : SubSeq(s, i, i + Len(sub) - 1) = sub

\* s.startswith(prefix)
StartsWith(s, prefix) ==
    Len(s) >= Len(prefix) /\ SubSeq(s, 1, Len(prefix)) = prefix

UpperLetters == "ABCDEFGHIJKLMNOPQRSTUVWXYZ"

LowerLetters == "abcdefghijklmnopqrstuvwxyz"

LowerChar(c) ==
    IF \E i \in 1..Len(UpperLetters) : CharAt(UpperLetters, i) = c
    THEN LET i == CHOOSE k \in 1..Len(UpperLetters) : CharAt(UpperLetters, k) = c
         IN  CharAt(LowerLetters, i)
    ELSE c

RECURSIVE Lower(_)
\* s.lower()
Lower(s) == IF Len(s) = 0 THEN "" ELSE LowerChar(CharAt(s, 1)) \o Lower(SubSeq(s, 2, Len(s)))

Whitespace == {" ", "\n", "\t", "\r"}

RECURSIVE LStrip(_)
LStrip(s) ==
    IF Len(s) > 0 /\ CharAt(s, 1) \in Whitespace THEN LStrip(SubSeq(s, 2, Len(s))) ELSE s

RECURSIVE RStrip(_)
RStrip(s) ==
    IF Len(s) > 0 /\ CharAt(s, Len(s)) \in Whitespace THEN RStrip(SubSeq(s, 1, Len(s) - 1)) ELSE s

\* s.strip()
Strip(s) == RStrip(LStrip(s))

\* os.path.basename(p): what follows the last "/"
basename(p) ==
    LET slashes == {i \in 1..Len(p) : CharAt(p, i) = "/"}
    IN  IF slashes = {} THEN p
        ELSE LET last == CHOOSE i \in slashes : \A j \in slashes : j <= i
             IN  SubSeq(p, last + 1, Len(p))

(***************************************************************************)
(* DiskUtils.__init__                                                      *)
(***************************************************************************)

protected_dirs ==
    <<"/", "/boot", "/etc", "/usr", "/var", "/bin", "/sbin",
      "/lib", "/lib64", "/opt", "/root", "/proc", "/sys", "/dev", "/run">>

allowed_fs_types == <<"ntfs", "exfat", "ext4", "ext3", "ext2", "fat32", "vfat", "refs">>

\* x in list
InList(x, list) == \E i \in 1..Len(list) : list[i] = x

(***************************************************************************)
(* Path validation                                                         *)
(***************************************************************************)

\* The backquote character (a string literal cannot hold a lone backquote).
Backquote == SubSeq("`'", 1, 1)

\* re.search over the character class  ;  &  |  backquote  $
HasSpecialChar(path) ==
    \E i \in 1..Len(path) : CharAt(path, i) \in {";", "&", "|", Backquote, "$"}

\* Faulty variant of _is_valid_path: the character search is left out of the
\* mount-point branch.
_is_valid_path_unchecked_mount_point(path) ==
    IF Len(path) = 0 THEN FALSE
    ELSE IF StartsWith(path, "/dev/") THEN ~HasSpecialChar(path)
    ELSE StartsWith(path, "/")

\* DiskUtils._is_valid_path
_is_valid_path(path) ==
    IF Len(path) = 0 THEN FALSE
    ELSE IF StartsWith(path, "/dev/") THEN ~HasSpecialChar(path)
    ELSE IF StartsWith(path, "/") THEN ~HasSpecialChar(path)
    ELSE FALSE

\* Faulty variant of _is_system_directory: the equality test is left out.
_is_system_directory_prefix_only(path) ==
    \E i \in 1..Len(protected_dirs) : StartsWith(path, protected_dirs[i] \o "/")

\* Faulty variant of _is_system_directory: the startswith test is left out.
_is_system_directory_exact_only(path) ==
    \E i \in 1..Len(protected_dirs) : path = protected_dirs[i]

\* DiskUtils._is_system_directory
_is_system_directory(path) ==
    \E i \in 1..Len(protected_dirs) :
        \/ path = protected_dirs[i]
        \/ StartsWith(path, protected_dirs[i] \o "/")

(***************************************************************************)
(* What a call leaves behind                                               *)
(***************************************************************************)

\* A validation step of a method and whether the argument passed it.
Check(what, ok) ==
    [kind |-> "check", what |-> what, ok |-> ok, argv |-> <<>>, shell |-> FALSE, out |-> ""]

\* os.makedirs(path) and whether it succeeded (it raises OSError otherwise).
Mkdir(path, ok) ==
    [kind |-> "mkdir", what |-> path, ok |-> ok, argv |-> <<>>, shell |-> FALSE, out |-> ""]

\* A process started from an argv list.  st is "ok" (exit status 0), "fail"
\* (non-zero exit status, CalledProcessError) or "missing" (no such
\* executable, FileNotFoundError); out is its standard output.
Spawn(argv, st, out) ==
    [kind |-> "spawn", what |-> st, ok |-> (st = "ok"), argv |-> argv, shell |-> FALSE, out |-> out]

\* A process started by handing one command line to the shell.
ShellSpawn(cmdline) ==
    [kind |-> "spawn", what |-> "ok", ok |-> TRUE, argv |-> <<cmdline>>, shell |-> TRUE, out |-> ""]

ProcStatus == {"ok", "fail", "missing"}

\* The call returned the tuple res.
Returned(tr, res, d) == [trace |-> tr, result |-> res, raised |-> "", dirs |-> d]

\* The exception exc escaped the call.
Raised(tr, exc, d) == [trace |-> tr, result |-> <<>>, raised |-> exc, dirs |-> d]

(***************************************************************************)
(* DiskUtils.get_filesystem_type                                           *)
(***************************************************************************)

\* blkid = [st, out]: how the blkid process ends and what it prints.
get_filesystem_type(device_path, blkid) ==
    [ev     |-> Spawn(<<"blkid", "-o", "value", "-s", "TYPE", device_path>>, blkid.st,
                      IF blkid.st = "ok" THEN blkid.out ELSE ""),
     value  |-> IF blkid.st = "ok" THEN Strip(blkid.out) ELSE "",
     raised |-> (blkid.st = "missing")]

(***************************************************************************)
(* DiskUtils.mount_disk                                                    *)
(***************************************************************************)

\* Faulty variant of mount_cmd: the probed type is always passed with -t.
mount_cmd_always_typed(fs_type, device_path, mount_point) ==
    <<"mount", "-t", fs_type, device_path, mount_point>>

\* The argv of the mount tool.
mount_cmd(fs_type, device_path, mount_point) ==
    <<"mount">>
    \o (IF fs_type = "ntfs" THEN <<"-t", "ntfs-3g">>
        ELSE IF fs_type = "exfat" THEN <<"-t", "exfat">>
        ELSE <<>>)
    \o <<device_path, mount_point>>

\* mount_point_arg is <<>> for None and <<p>> for the path p.
resolve_mount_point(device_path, mount_point_arg) ==
    IF mount_point_arg = <<>> THEN "/mnt/" \o basename(device_path)
    ELSE mount_point_arg[1]

\* d: the directories that exist; mkdir_ok: whether os.makedirs succeeds;
\* blkid, mount_st: how the two processes end.
mount_disk(device_path, mount_point_arg, d, mkdir_ok, blkid, mount_st) ==
    LET c1 == Check("device_path", _is_valid_path(device_path))
        mount_point == resolve_mount_point(device_path, mount_point_arg)
        c2 == Check("mount_point", _is_valid_path(mount_point))
        c3 == Check("system_directory", ~_is_system_directory(mount_point))
        absent == mount_point \notin d
        t4 == <<c1, c2, c3>> \o (IF absent THEN <<Mkdir(mount_point, mkdir_ok)>> ELSE <<>>)
        d2 == IF absent /\ mkdir_ok THEN d \cup {mount_point} ELSE d
        fs == get_filesystem_type(device_path, blkid)
        t5 == t4 \o <<fs.ev>>
        t6 == t5 \o <<Spawn(mount_cmd(fs.value, device_path, mount_point), mount_st, "")>>
    IN  IF ~c1.ok THEN
            Returned(<<c1>>, <<FALSE, "invalid device path specified.", "">>, d)
        ELSE IF ~c2.ok THEN
            Returned(<<c1, c2>>, <<FALSE, "invalid mount point specified.", "">>, d)
        ELSE IF ~c3.ok THEN
            Returned(<<c1, c2, c3>>,
                     <<FALSE, "cannot mount on a system directory: " \o mount_point, "">>, d)
        ELSE IF absent /\ ~mkdir_ok THEN
            Returned(t4, <<FALSE, "failed to create the mount point: OSError", "">>, d)
        ELSE IF fs.raised THEN
            Raised(t5, "FileNotFoundError", d2)
        ELSE IF mount_st = "ok" THEN
            Returned(t6, <<TRUE, mount_point, "">>, d2)
        ELSE IF mount_st = "fail" THEN
            Returned(t6, <<FALSE, "failed to mount " \o device_path \o ": CalledProcessError", "">>, d2)
        ELSE
            Raised(t6, "FileNotFoundError", d2)

(***************************************************************************)
(* DiskUtils._check_refs_tools_available, DiskUtils.format_disk            *)
(***************************************************************************)

\* which_st: how "which mkfs.refs" ends.
_check_refs_tools_available(which_st) ==
    [ev |-> Spawn(<<"which", "mkfs.refs">>, which_st, ""), value |-> (which_st = "ok")]

\* The formatting command of a file system type, <<>> when there is none.
format_cmd(fs_type, device_path) ==
    IF Lower(fs_type) = "ntfs" THEN <<"mkfs.ntfs", "-f", device_path>>
    ELSE IF Lower(fs_type) = "exfat" THEN <<"mkfs.exfat", device_path>>
    ELSE IF Lower(fs_type) = "refs" THEN <<"mkfs.refs", device_path>>
    ELSE <<>>

\* Faulty variant of format_disk: the allow-list test is left out and the tool
\* name is built from the type.
format_disk_unchecked_fs_type(device_path, fs_type, which_st, mkfs_st) ==
    LET c1 == Check("device_path", _is_valid_path(device_path))
        c3 == Check("system_directory", ~_is_system_directory(device_path))
        cmd == IF format_cmd(fs_type, device_path) = <<>> THEN <<"mkfs." \o fs_type, device_path>>
               ELSE format_cmd(fs_type, device_path)
        t3 == <<c1, c3>>
        t5 == t3 \o <<Spawn(cmd, mkfs_st, "")>>
    IN  IF ~c1.ok THEN Returned(<<c1>>, <<FALSE, "invalid device path: " \o device_path>>, {})
        ELSE IF ~c3.ok THEN
            Returned(t3, <<FALSE, "a system directory cannot be formatted: " \o device_path>>, {})
        ELSE IF mkfs_st = "ok" THEN Returned(t5, <<TRUE, "">>, {})
        ELSE Returned(t5, <<FALSE, "failed to format " \o device_path>>, {})

\* which_st, mkfs_st: how "which mkfs.refs" and the formatting tool end.
format_disk(device_path, fs_type, which_st, mkfs_st) ==
    LET c1 == Check("device_path", _is_valid_path(device_path))
        c2 == Check("fs_type", InList(fs_type, allowed_fs_types))
        c3 == Check("system_directory", ~_is_system_directory(device_path))
        is_refs == (Lower(fs_type) = "refs")
        probe == _check_refs_tools_available(which_st)
        cmd == format_cmd(fs_type, device_path)
        t3 == <<c1, c2, c3>>
        t4 == t3 \o (IF is_refs THEN <<probe.ev>> ELSE <<>>)
        t5 == t4 \o <<Spawn(cmd, mkfs_st, "")>>
    IN  IF ~c1.ok THEN
            Returned(<<c1>>, <<FALSE, "invalid device path: " \o device_path>>, {})
        ELSE IF ~c2.ok THEN
            Returned(<<c1, c2>>, <<FALSE, "unsupported file system type: " \o fs_type>>, {})
        ELSE IF ~c3.ok THEN
            Returned(t3, <<FALSE, "a system directory cannot be formatted: " \o device_path>>, {})
        ELSE IF is_refs /\ ~probe.value THEN
            Returned(t4, <<FALSE, "ReFS tools not found. Install the required tools.">>, {})
        ELSE IF cmd = <<>> THEN
            Returned(t4, <<FALSE, "unsupported file system type: " \o fs_type>>, {})
        ELSE IF mkfs_st = "ok" THEN
            Returned(t5, <<TRUE, "">>, {})
        ELSE IF mkfs_st = "fail" THEN
            Returned(t5, <<FALSE, "failed to format " \o device_path \o ": CalledProcessError">>, {})
        ELSE
            Returned(t5, <<FALSE, "ReFS tool not found: FileNotFoundError">>, {})

(***************************************************************************)
(* DiskUtils.set_permissions                                               *)
(***************************************************************************)

\* Faulty variant of set_permissions: a chmod that exits with an error is
\* started a second time.
set_permissions_retrying(mount_point, chmod_st) ==
    LET c1 == Check("mount_point", _is_valid_path(mount_point))
        c2 == Check("system_directory", ~_is_system_directory(mount_point))
        chmod == Spawn(<<"chmod", "-R", "777", mount_point>>, chmod_st, "")
    IN  IF ~c1.ok THEN
            Returned(<<c1>>, <<FALSE, "invalid mount point: " \o mount_point>>, {})
        ELSE IF ~c2.ok THEN
            Returned(<<c1, c2>>,
                     <<FALSE, "cannot grant permissions on a system directory: " \o mount_point>>, {})
        ELSE IF chmod_st = "ok" THEN
            Returned(<<c1, c2, chmod>>, <<TRUE, "">>, {})
        ELSE IF chmod_st = "fail" THEN
            Returned(<<c1, c2, chmod, chmod>>,
                     <<FALSE, "failed to grant permissions on " \o mount_point
                              \o ": CalledProcessError">>, {})
        ELSE
            Raised(<<c1, c2, chmod>>, "FileNotFoundError", {})

\* chmod_st: how chmod ends.
set_permissions(mount_point, chmod_st) ==
    LET c1 == Check("mount_point", _is_valid_path(mount_point))
        c2 == Check("system_directory", ~_is_system_directory(mount_point))
        t3 == <<c1, c2, Spawn(<<"chmod", "-R", "777", mount_point>>, chmod_st, "")>>
    IN  IF ~c1.ok THEN
            Returned(<<c1>>, <<FALSE, "invalid mount point: " \o mount_point>>, {})
        ELSE IF ~c2.ok THEN
            Returned(<<c1, c2>>,
                     <<FALSE, "cannot grant permissions on a system directory: " \o mount_point>>, {})
        ELSE IF chmod_st = "ok" THEN
            Returned(t3, <<TRUE, "">>, {})
        ELSE IF chmod_st = "fail" THEN
            Returned(t3, <<FALSE, "failed to grant permissions on " \o mount_point
                                   \o ": CalledProcessError">>, {})
        ELSE
            Raised(t3, "FileNotFoundError", {})

(***************************************************************************)
(* ConfigManager                                                           *)
(***************************************************************************)

default_config ==
    [file_manager |-> "auto",
     file_managers_list |->
        <<"xdg-open", "pcmanfm", "nautilus", "thunar", "dolphin", "nemo", "caja",
          "dbus-launch pcmanfm", "dbus-launch nautilus">>]

\* ConfigManager.get_file_manager followed by the isinstance test of
\* open_file_manager: the launchers to try, in order.
file_managers(cfg) ==
    IF cfg.file_manager = "auto" THEN cfg.file_managers_list ELSE <<cfg.file_manager>>

\* The entries that are looked up with "which" before they are started.
LookedUp(list) == {list[i] : i \in {k \in 1..Len(list) : ~Contains(list[k], " ")}}

(***************************************************************************)
(* DiskUtils.open_file_manager                                             *)
(***************************************************************************)

\* The launcher loop from entry i on.  which_present: whether the "which"
\* executable exists; st[m] is "absent" (which m exits non-zero), "ok" or
\* "broken" (which m succeeds but starting m raises).
RECURSIVE try_file_managers(_, _, _, _, _, _)
try_file_managers(list, i, mount_point, which_present, st, tr) ==
    IF i > Len(list) THEN
        Returned(tr, <<FALSE, "no file manager available">>, {})
    ELSE
        LET manager == list[i]
            w == Spawn(<<"which", manager>>,
                       IF ~which_present THEN "missing"
                       ELSE IF st[manager] = "absent" THEN "fail" ELSE "ok", "")
            p == Spawn(<<manager, mount_point>>,
                       IF st[manager] = "broken" THEN "missing" ELSE "ok", "")
        IN  IF Contains(manager, " ") THEN
                Returned(tr \o <<ShellSpawn(manager \o " " \o mount_point)>>, <<TRUE, "">>, {})
            ELSE IF ~w.ok THEN
                try_file_managers(list, i + 1, mount_point, which_present, st, tr \o <<w>>)
            ELSE IF p.ok THEN
                Returned(tr \o <<w, p>>, <<TRUE, "">>, {})
            ELSE
                try_file_managers(list, i + 1, mount_point, which_present, st, tr \o <<w, p>>)

open_file_manager(mount_point, cfg, which_present, st) ==
    LET c1 == Check("mount_point", _is_valid_path(mount_point))
    IN  IF ~c1.ok THEN
            Returned(<<c1>>, <<FALSE, "invalid mount point: " \o mount_point>>, {})
        ELSE
            try_file_managers(file_managers(cfg), 1, mount_point, which_present, st, <<c1>>)

(***************************************************************************)
(* DiskUtils.get_unmounted_disks, DiskUtils.get_mounted_disks              *)
(***************************************************************************)

\* A call of the logger: level is "info" or "error".
Log(level, text) ==
    [kind |-> "log", what |-> level, ok |-> (level # "error"), argv |-> <<>>,
     shell |-> FALSE, out |-> text]

\* The output of lsblk -J is kept as what json.loads makes of it: json says
\* whether the text parses, blockdevices is the parsed device list.  A device
\* is [name, size, type, fstype, mountpoint, children]; null is <<>> and the
\* string s is <<s>> in fstype and mountpoint.
Unmounted(entry, type) == entry.mountpoint = <<>> /\ entry.type = type

Mounted(entry, type) == entry.mountpoint # <<>> /\ entry.type = type

\* The dictionary built for a device or partition that is not mounted.
disk_info(device) ==
    [name |-> device.name, path |-> "/dev/" \o device.name, size |-> device.size,
     type |-> device.type, fstype |-> device.fstype]

\* The dictionary built for a mounted one.
mounted_info(device) ==
    [name |-> device.name, path |-> "/dev/" \o device.name, size |-> device.size,
     type |-> device.type, fstype |-> device.fstype, mountpoint |-> device.mountpoint[1]]

\* Faulty variant of unmounted_disks: all disks first, then all partitions.
unmounted_disks_then_partitions(blockdevices, i) ==
    LET disks == SelectSeq(blockdevices, LAMBDA d : Unmounted(d, "disk"))
        parts(k) == SelectSeq(blockdevices[k].children, LAMBDA p : Unmounted(p, "part"))
        all_parts[k \in 0..Len(blockdevices)] ==
            IF k = 0 THEN <<>> ELSE all_parts[k - 1] \o parts(k)
        found == disks \o all_parts[Len(blockdevices)]
    IN  [k \in 1..Len(found) |-> disk_info(found[k])]

\* The loop over blockdevices from entry i on: the list that is appended.
RECURSIVE unmounted_disks(_, _)
unmounted_disks(blockdevices, i) ==
    IF i > Len(blockdevices) THEN <<>>
    ELSE
        LET device == blockdevices[i]
            own == IF Unmounted(device, "disk") THEN <<disk_info(device)>> ELSE <<>>
            parts == SelectSeq(device.children, LAMBDA p : Unmounted(p, "part"))
        IN  own \o [k \in 1..Len(parts) |-> disk_info(parts[k])]
                \o unmounted_disks(blockdevices, i + 1)

\* Mount points whose partitions are left out of the mounted list.
system_mountpoints == <<"/", "/boot", "/home">>

RECURSIVE mounted_disks(_, _)
mounted_disks(blockdevices, i) ==
    IF i > Len(blockdevices) THEN <<>>
    ELSE
        LET device == blockdevices[i]
            own == IF Mounted(device, "disk") THEN <<mounted_info(device)>> ELSE <<>>
            parts == SelectSeq(device.children,
                               LAMBDA p : Mounted(p, "part")
                                          /\ ~InList(p.mountpoint[1], system_mountpoints))
        IN  own \o [k \in 1..Len(parts) |-> mounted_info(parts[k])]
                \o mounted_disks(blockdevices, i + 1)

lsblk_argv == <<"lsblk", "-J", "-o", "NAME,SIZE,TYPE,FSTYPE,MOUNTPOINT">>

\* Faulty variant of get_unmounted_disks: a failure of lsblk or of the parse
\* is swallowed without a log entry.
get_unmounted_disks_silent(lsblk) ==
    LET t1 == <<Log("info", "listing unmounted disks"),
                Spawn(lsblk_argv, lsblk.st, lsblk.out)>>
        found == unmounted_disks(lsblk.out.blockdevices, 1)
    IN  IF lsblk.st # "ok" \/ ~lsblk.out.json THEN Returned(t1, <<>>, {})
        ELSE Returned(t1 \o <<Log("info", "unmounted disks found: " \o ToString(Len(found)))>>,
                      found, {})

\* lsblk = [st, out]: how the lsblk process ends and what it prints.
get_unmounted_disks(lsblk) ==
    LET t1 == <<Log("info", "listing unmounted disks"),
                Spawn(lsblk_argv, lsblk.st, lsblk.out)>>
        found == unmounted_disks(lsblk.out.blockdevices, 1)
    IN  IF lsblk.st = "missing" THEN
            Raised(t1, "FileNotFoundError", {})
        ELSE IF lsblk.st = "fail" THEN
            Returned(t1 \o <<Log("error", "failed to get the disk information: CalledProcessError")>>,
                     <<>>, {})
        ELSE IF ~lsblk.out.json THEN
            Returned(t1 \o <<Log("error", "failed to decode the disk information: JSONDecodeError")>>,
                     <<>>, {})
        ELSE
            Returned(t1 \o <<Log("info", "unmounted disks found: " \o ToString(Len(found)))>>,
                     found, {})

get_mounted_disks(lsblk) ==
    LET t1 == <<Log("info", "listing mounted disks"),
                Spawn(lsblk_argv, lsblk.st, lsblk.out)>>
        found == mounted_disks(lsblk.out.blockdevices, 1)
    IN  IF lsblk.st = "missing" THEN
            Raised(t1, "FileNotFoundError", {})
        ELSE IF lsblk.st = "fail" THEN
            Returned(t1 \o <<Log("error", "failed to get the disk information: CalledProcessError")>>,
                     <<>>, {})
        ELSE IF ~lsblk.out.json THEN
            Returned(t1 \o <<Log("error", "failed to decode the disk information: JSONDecodeError")>>,
                     <<>>, {})
        ELSE
            Returned(t1 \o <<Log("info", "mounted disks found: " \o ToString(Len(found)))>>,
                     found, {})

(***************************************************************************)
(* DiskPropertiesAnalyzer._determine_health_status                         *)
(***************************************************************************)

\* The threshold table built by DiskPropertiesAnalyzer.__init__.
initial_smart_thresholds ==
    [Reallocated_Sector_Ct  |-> [normal |-> 0, warning |-> 10, critical |-> 10],
     Current_Pending_Sector |-> [normal |-> 0, warning |-> 5, critical |-> 5],
     Offline_Uncorrectable  |-> [normal |-> 0, warning |-> 1, critical |-> 1],
     UDMA_CRC_Error_Count   |-> [normal |-> 0, warning |-> 5, critical |-> 5]]

\* dict.get(key, default).  A dictionary with string keys is a function on
\* the keys it holds; attributes and sata_errors, whose items are iterated,
\* are sequences of <<key, value>> pairs in insertion order.
dict_get(d, key, default) == IF key \in DOMAIN d THEN d[key] ELSE default

\* A running score with the issues collected so far.
Scored(score, issues) == [score |-> score, issues |-> issues]

\* The score starts at 100; the overall self-assessment is evaluated first.
overall_health_step(overall_health) ==
    IF overall_health = "PASSED" THEN Scored(100, <<>>)
    ELSE IF overall_health = "FAILED" THEN Scored(100 - 50, <<"S.M.A.R.T. overall test: failed">>)
    ELSE Scored(100 - 10, <<"S.M.A.R.T. overall test: " \o overall_health>>)

\* Faulty variant of attribute_step: a value equal to the critical
\* threshold already counts as critical.
attribute_step_inclusive(prev, attr_name, attr_value, table) ==
    LET thresholds == dict_get(table, attr_name, <<>>)
        normal == dict_get(thresholds, "normal", 0)
        critical == dict_get(thresholds, "critical", 0)
    IN  IF attr_value >= critical /\ attr_value > normal THEN
            Scored(prev.score - 30,
                   Append(prev.issues, attr_name \o ": " \o ToString(attr_value) \o " (critical)"))
        ELSE IF attr_value > normal THEN
            Scored(prev.score - 10,
                   Append(prev.issues, attr_name \o ": " \o ToString(attr_value) \o " (warning)"))
        ELSE prev

\* Faulty variant of attribute_step: the deductions of the two levels are
\* exchanged.
attribute_step_exchanged(prev, attr_name, attr_value, table) ==
    LET thresholds == dict_get(table, attr_name, <<>>)
        normal == dict_get(thresholds, "normal", 0)
        critical == dict_get(thresholds, "critical", 0)
    IN  IF attr_value > critical THEN
            Scored(prev.score - 10,
                   Append(prev.issues, attr_name \o ": " \o ToString(attr_value) \o " (critical)"))
        ELSE IF attr_value > normal THEN
            Scored(prev.score - 30,
                   Append(prev.issues, attr_name \o ": " \o ToString(attr_value) \o " (warning)"))
        ELSE prev

\* One turn of the loop over attributes.items().
attribute_step(prev, attr_name, attr_value, table) ==
    LET thresholds == dict_get(table, attr_name, <<>>)
        normal == dict_get(thresholds, "normal", 0)
        critical == dict_get(thresholds, "critical", 0)
    IN  IF attr_value > critical THEN
            Scored(prev.score - 30,
                   Append(prev.issues, attr_name \o ": " \o ToString(attr_value) \o " (critical)"))
        ELSE IF attr_value > normal THEN
            Scored(prev.score - 10,
                   Append(prev.issues, attr_name \o ": " \o ToString(attr_value) \o " (warning)"))
        ELSE prev

\* Faulty variant of error_log_step: only the summary "no errors" is free.
error_log_step_unavailable_counts(prev, error_log) ==
    IF error_log # "no errors" THEN
        Scored(prev.score - 15, Append(prev.issues, "error log: " \o error_log))
    ELSE prev

\* The evaluation of the error log summary.
error_log_step(prev, error_log) ==
    IF error_log # "no errors" /\ error_log # "unavailable" THEN
        Scored(prev.score - 15, Append(prev.issues, "error log: " \o error_log))
    ELSE prev

\* One turn of the loop over sata_errors.items().
sata_step(prev, error_name, error_count) ==
    IF error_count > 0 THEN
        Scored(prev.score - 5,
               Append(prev.issues, "SATA error " \o error_name \o ": " \o ToString(error_count)))
    ELSE prev

\* Faulty variant of status_of: 90 points are not enough for "Normal".
status_of_above_90(score) ==
    IF score > 90 THEN "Normal" ELSE IF score >= 70 THEN "Degraded" ELSE "Failing"

\* The status that belongs to a score.
status_of(score) ==
    IF score >= 90 THEN "Normal" ELSE IF score >= 70 THEN "Degraded" ELSE "Failing"

\* Faulty variant of unsupported_status: no issue is reported.
unsupported_status_without_issue ==
    [status |-> "Unknown", score |-> 0, issues |-> <<>>]

\* What is returned when S.M.A.R.T. is not supported.
unsupported_status ==
    [status |-> "Unknown", score |-> 0, issues |-> <<"S.M.A.R.T. is not supported">>]

\* The dictionary _determine_health_status returns.
health_status(info, table) ==
    IF ~dict_get(info, "smart_supported", FALSE) THEN unsupported_status
    ELSE
        LET overall_health == dict_get(info, "overall_health", "")
            attributes == dict_get(info, "attributes", <<>>)
            error_log == dict_get(info, "error_log_summary", "")
            sata_errors == dict_get(info, "sata_errors", <<>>)
            after_attributes[k \in 0..Len(attributes)] ==
                IF k = 0 THEN overall_health_step(overall_health)
                ELSE attribute_step(after_attributes[k - 1],
                                    attributes[k][1], attributes[k][2], table)
            after_log == error_log_step(after_attributes[Len(attributes)], error_log)
            after_sata[k \in 0..Len(sata_errors)] ==
                IF k = 0 THEN after_log
                ELSE sata_step(after_sata[k - 1], sata_errors[k][1], sata_errors[k][2])
            final == after_sata[Len(sata_errors)]
        IN  [status |-> status_of(final.score), score |-> final.score, issues |-> final.issues]

\* Faulty variant of _determine_health_status: the normal threshold of every
\* attribute of the report is raised to the value just seen.
_determine_health_status_learning(info, table) ==
    LET attributes == dict_get(info, "attributes", <<>>)
        seen(name) == {attributes[k][2] : k \in {j \in 1..Len(attributes) : attributes[j][1] = name}}
    IN  [health_status |-> health_status(info, table),
         smart_info |-> info,
         smart_thresholds |->
            [name \in DOMAIN table |->
                IF seen(name) = {} THEN table[name]
                ELSE [table[name] EXCEPT !.normal = CHOOSE v \in seen(name) : TRUE]]]

\* A call of the method: what it returns, and the dictionary passed in and
\* the threshold table of the analyzer as the call leaves them.
_determine_health_status(info, table) ==
    [health_status |-> health_status(info, table),
     smart_info |-> info,
     smart_thresholds |-> table]

(***************************************************************************)
(* DiskPropertiesAnalyzer._is_partition, _get_parent_disk                  *)
(***************************************************************************)

Digits == "0123456789"

\* str.isdigit for a one-character string.
IsDigit(c) == \E i \in 1..Len(Digits) : CharAt(Digits, i) = c

\* head.rstrip('/') as os.path.dirname applies it.
RECURSIVE RStripSlashes(_)
RStripSlashes(s) ==
    IF Len(s) > 0 /\ CharAt(s, Len(s)) = "/" THEN RStripSlashes(SubSeq(s, 1, Len(s) - 1)) ELSE s

\* os.path.dirname for the POSIX paths used here.
dirname(p) ==
    LET slashes == {i \in 1..Len(p) : CharAt(p, i) = "/"}
    IN  IF slashes = {} THEN ""
        ELSE LET last == CHOOSE i \in slashes : \A j \in slashes : j <= i
                 head == SubSeq(p, 1, last)
             IN  IF \A i \in 1..last : CharAt(p, i) = "/" THEN head
                 ELSE RStripSlashes(head)

\* os.path.join(a, b) for a relative b.
path_join(a, b) ==
    IF a = "" THEN b
    ELSE IF CharAt(a, Len(a)) = "/" THEN a \o b
    ELSE a \o "/" \o b

\* re.sub(r'\d+$', '', name): the name without its trailing digits.
RECURSIVE strip_trailing_digits(_)
strip_trailing_digits(name) ==
    IF Len(name) > 0 /\ IsDigit(CharAt(name, Len(name)))
    THEN strip_trailing_digits(SubSeq(name, 1, Len(name) - 1))
    ELSE name

_is_partition(device_path) ==
    LET device_name == basename(device_path)
    IN  \E i \in 1..Len(device_name) : IsDigit(CharAt(device_name, i))

_get_parent_disk(partition_path) ==
    path_join(dirname(partition_path), strip_trailing_digits(basename(partition_path)))

(***************************************************************************)
(* DiskPropertiesAnalyzer._get_basic_disk_info, _get_smart_info,           *)
(* _get_filesystem_info, get_disk_properties                               *)
(***************************************************************************)

\* subprocess.run(cmd, check=False): run.st is "ok" (exit status 0), "fail"
\* (non-zero exit status; no exception is raised for it) or "missing" (no
\* such executable, FileNotFoundError); run.out is what the process printed.
\* The text smartctl prints is kept as what the regular expressions of
\* _get_smart_info find in it.
Ran(run) == run.st # "missing"

\* What a helper gives back: the processes it started and log calls it made,
\* and the dictionary it returned.
Gave(ev, value) == [ev |-> ev, value |-> value]

\* basic = [st, out]; out.found says whether lsblk printed a device.
_get_basic_disk_info(device_path, basic) ==
    LET ev == <<Spawn(<<"lsblk", "-o", "NAME,SIZE,MODEL,SERIAL,TYPE,FSTYPE", "-J", device_path>>,
                      basic.st, basic.out)>>
    IN  IF ~Ran(basic) THEN
            Gave(ev \o <<Log("error", "error while getting the basic information")>>, <<>>)
        ELSE IF basic.st = "ok" /\ basic.out.found THEN
            Gave(ev, [name |-> basename(device_path), size |-> "100G", model |-> "",
                      serial |-> "", type |-> basic.out.type, fstype |-> ""])
        ELSE Gave(ev, <<>>)

\* The dictionary _get_smart_info starts from.
smart_defaults ==
    [overall_health |-> "unknown", attributes |-> <<>>, temperature |-> "N/A",
     power_on_hours |-> "N/A", error_log_summary |-> "unavailable", smart_supported |-> FALSE]

\* What is returned when an exception is caught.
smart_error == [overall_health |-> "error", error |-> "Exception", smart_supported |-> FALSE]

\* The fields the summary pass (smartctl -a) sets.
after_summary(out) ==
    LET r1 == IF out.token # <<>>
              THEN [smart_defaults EXCEPT !.overall_health = out.token[1], !.smart_supported = TRUE]
              ELSE smart_defaults
        r2 == [r1 EXCEPT !.attributes = out.attributes]
        r3 == IF out.temperature # <<>>
              THEN [r2 EXCEPT !.temperature = ToString(out.temperature[1]) \o " C"]
              ELSE r2
    IN  IF out.hours # <<>>
        THEN [r3 EXCEPT !.power_on_hours =
                 ToString(out.hours[1]) \o " hours (" \o ToString(out.hours[1] \div 24) \o " days)"]
        ELSE r3

\* The field the error-log pass (smartctl -l error) sets.
after_error_log(r, out) ==
    IF out.no_errors THEN [r EXCEPT !.error_log_summary = "no errors"]
    ELSE IF out.error_log THEN
        [r EXCEPT !.error_log_summary =
            ToString(out.error_count) \o " errors, latest: " \o out.recent_date]
    ELSE r

\* The field the extended pass (smartctl -x) sets.
after_extended(r, out) ==
    IF out.sata_errors # <<>> THEN r @@ [sata_errors |-> out.sata_errors] ELSE r

\* summary, error_log, extended: the three runs of smartctl.
_get_smart_info(device_path, summary, error_log, extended) ==
    LET e1 == <<Spawn(<<"smartctl", "-a", device_path>>, summary.st, summary.out)>>
        e2 == e1 \o <<Spawn(<<"smartctl", "-l", "error", device_path>>, error_log.st, error_log.out)>>
        e3 == e2 \o <<Spawn(<<"smartctl", "-x", device_path>>, extended.st, extended.out)>>
        caught == <<Log("error", "error while getting the S.M.A.R.T. information")>>
        r1 == after_summary(summary.out)
    IN  IF ~Ran(summary) THEN Gave(e1 \o caught, smart_error)
        ELSE IF ~r1.smart_supported /\ summary.out.unsupported THEN
            Gave(e1, [smart_defaults EXCEPT !.overall_health = "not supported"])
        ELSE IF ~Ran(error_log) THEN Gave(e2 \o caught, smart_error)
        ELSE IF ~Ran(extended) THEN Gave(e3 \o caught, smart_error)
        ELSE Gave(e3, after_extended(after_error_log(r1, error_log.out), extended.out))

\* The command that checks a file system of the given type.
fsck_cmd(fstype, device_path) ==
    IF fstype = "ntfs" THEN <<"ntfsfix", "--no-action", device_path>>
    ELSE IF fstype = "exfat" THEN <<"fatresize", "-i", device_path>>
    ELSE <<"fsck", "-n", device_path>>

\* Faulty variant of fsck_class: the words are looked for without lowering
\* the output.
fsck_class_case_sensitive(st, output) ==
    IF st = "ok" THEN
        IF Contains(output, "clean") \/ Contains(output, "no errors")
        THEN [fsck_status |-> "normal", fsck_result |-> "no errors"]
        ELSE [fsck_status |-> "warning", fsck_result |-> "minor errors"]
    ELSE
        IF Contains(output, "could not") \/ Contains(output, "failed")
        THEN [fsck_status |-> "error", fsck_result |-> "check failed"]
        ELSE [fsck_status |-> "failing", fsck_result |-> "severe errors"]

\* The class of a check that ended with status st and printed output.
fsck_class(st, output) ==
    LET lowered == Lower(output)
    IN  IF st = "ok" THEN
            IF Contains(lowered, "clean") \/ Contains(lowered, "no errors")
            THEN [fsck_status |-> "normal", fsck_result |-> "no errors"]
            ELSE [fsck_status |-> "warning", fsck_result |-> "minor errors"]
        ELSE
            IF Contains(lowered, "could not") \/ Contains(lowered, "failed")
            THEN [fsck_status |-> "error", fsck_result |-> "check failed"]
            ELSE [fsck_status |-> "failing", fsck_result |-> "severe errors"]

\* Longest check output that is kept.
fsck_details_limit == 1000

\* What is returned when an exception is caught.
filesystem_error ==
    [fstype |-> "unknown", fsck_result |-> "error", fsck_status |-> "error",
     fsck_details |-> "Exception"]

\* fstype_run: the run of lsblk -o FSTYPE; fsck: the run of the check, whose
\* out is stdout + stderr.
_get_filesystem_info(device_path, fstype_run, fsck) ==
    LET e1 == <<Spawn(<<"lsblk", "-o", "FSTYPE", "-n", device_path>>, fstype_run.st, fstype_run.out)>>
        printed == Strip(fstype_run.out)
        fstype == IF printed # "" THEN printed ELSE "unformatted"
        e2 == e1 \o <<Spawn(fsck_cmd(fstype, device_path), fsck.st, fsck.out)>>
        caught == <<Log("error", "error while getting the file system information")>>
        class == fsck_class(fsck.st, fsck.out)
        details == IF Len(fsck.out) > fsck_details_limit
                   THEN SubSeq(fsck.out, 1, fsck_details_limit) ELSE fsck.out
    IN  IF ~Ran(fstype_run) THEN Gave(e1 \o caught, filesystem_error)
        ELSE IF fstype = "unformatted" THEN
            Gave(e1, [fstype |-> fstype, fsck_result |-> "not run", fsck_status |-> "unknown",
                      fsck_details |-> ""])
        ELSE IF ~Ran(fsck) THEN Gave(e2 \o caught, filesystem_error)
        ELSE Gave(e2, [fstype |-> fstype, fsck_result |-> class.fsck_result,
                       fsck_status |-> class.fsck_status, fsck_details |-> details])

\* table: the analyzer's threshold table; the other arguments are the runs
\* of the processes the call may start.
get_disk_properties(device_path, table, basic, summary, error_log, extended, fstype_run, fsck) ==
    LET t0 == <<Log("info", "getting the properties")>>
        b == _get_basic_disk_info(device_path, basic)
        is_partition == _is_partition(device_path)
        properties ==
            [device_path |-> device_path, timestamp |-> "now", basic_info |-> b.value,
             is_partition |-> is_partition]
        smart == _get_smart_info(device_path, summary, error_log, extended)
        parent_disk == _get_parent_disk(device_path)
        fs == _get_filesystem_info(device_path, fstype_run, fsck)
        parent_smart == _get_smart_info(parent_disk, summary, error_log, extended)
    IN  IF ~is_partition THEN
            Returned(t0 \o b.ev \o smart.ev,
                     properties @@ [smart_info |-> smart.value,
                                    health_status |->
                                        _determine_health_status(smart.value, table).health_status],
                     {})
        ELSE IF parent_disk # "" THEN
            Returned(t0 \o b.ev \o fs.ev \o parent_smart.ev,
                     properties @@ [parent_disk |-> parent_disk,
                                    parent_smart_info |-> parent_smart.value,
                                    health_status |->
                                        _determine_health_status(parent_smart.value, table).health_status,
                                    filesystem_info |-> fs.value],
                     {})
        ELSE
            Returned(t0 \o b.ev \o fs.ev, properties @@ [filesystem_info |-> fs.value], {})

(***************************************************************************)
(* The arguments the calls are made with                                   *)
(***************************************************************************)

\* Longest launcher list written to the configuration.
MaxLaunchers == 3

InjectionPaths ==
    {"/dev/sda1;id", "/dev/sda1&&id", "/dev/sda1|id",
     "/dev/sda1" \o Backquote \o "id" \o Backquote, "/dev/sda1$(id)"}

\* Device paths given to mount_disk.
DevicePaths ==
    {"/dev/sda1", "/dev/../../etc", "../etc/shadow", ""} \cup InjectionPaths

\* Mount points given to mount_disk (<<>> is None).
MountPointArgs ==
    {<<>>, <<"/mnt/usb">>, <<"/media/usb">>, <<"/optical">>, <<"/">>, <<"/etc">>,
     <<"/etc/mnt">>, <<"/dev/shm">>, <<"/mnt/a;b">>, <<"mnt/rel">>, <<"">>}

ProtectedPaths ==
    {protected_dirs[i] : i \in 1..Len(protected_dirs)}
    \cup {"/etc/passwd", "/usr/local/bin", "/boot/efi", "/run/media/usb",
          "/dev/sda1", "/dev/sdb", "/dev/../../etc", "/etc/a|b"}

\* Targets given to format_disk and set_permissions.
TargetPaths ==
    ProtectedPaths \cup InjectionPaths
    \cup {"/home", "/home/user/disk.img", "/mnt/usb", "/media/usb", "/etcetera", "/device",
          "/home/../etc", "/mnt/usb;id", "/tmp/x$(id)", "../etc/shadow", "etc", ""}

FsTypes ==
    {allowed_fs_types[i] : i \in 1..Len(allowed_fs_types)}
    \cup {"NTFS", "Refs", "ExFAT", "btrfs", "unsupported", "ntfs; rm -rf /", ""}

\* What blkid prints when it exits with status 0.
BlkidOutputs == {"ntfs\n", "exfat\n", "ext4\n", "vfat\n", "\n"}

BlkidRuns ==
    {[st |-> "ok", out |-> o] : o \in BlkidOutputs}
    \cup {[st |-> "fail", out |-> ""], [st |-> "missing", out |-> ""]}

\* Paths given to open_file_manager.
OpenPaths == {"/mnt/usb", "/mnt/my disk", "/mnt/usb;id", ""}

\* Launcher names written to the configuration.
LauncherChoices == {"xdg-open", "pcmanfm", "nautilus", "dbus-launch pcmanfm"}

LauncherLists == UNION {[1..n -> LauncherChoices] : n \in 0..MaxLaunchers}

\* What open_file_manager can find installed: either the "which" executable
\* is itself missing, or each looked-up launcher is absent, ok or broken.
LauncherEnvs(list) ==
    {[which_present |-> FALSE, st |-> [m \in LookedUp(list) |-> "absent"]]}
    \cup {[which_present |-> TRUE, st |-> f] :
            f \in [LookedUp(list) -> {"absent", "ok", "broken"}]}

\* Most top-level devices and most children per device in an lsblk report.
MaxDevices == 2

MaxChildren == 2

DriveLetters == "abcdefgh"

\* Type and mount point of the children lsblk lists under a device.
PartitionKinds ==
    {[type |-> "part", mountpoint |-> <<>>], [type |-> "part", mountpoint |-> <<"/boot/efi">>],
     [type |-> "crypt", mountpoint |-> <<>>]}

\* Type and mount point of the top-level devices.
DeviceKinds ==
    {[type |-> "disk", mountpoint |-> <<>>], [type |-> "disk", mountpoint |-> <<"/mnt/x">>],
     [type |-> "loop", mountpoint |-> <<>>]}

ChildKindLists == UNION {[1..m -> PartitionKinds] : m \in 0..MaxChildren}

\* The i-th device of a report: lsblk names are unique.
Device(i, kind, kids) ==
    LET name == "sd" \o SubSeq(DriveLetters, i, i)
    IN  [name |-> name, size |-> "100G", type |-> kind.type, fstype |-> <<>>,
         mountpoint |-> kind.mountpoint,
         children |-> [j \in 1..Len(kids) |->
                          [name |-> name \o ToString(j), size |-> "50G", type |-> kids[j].type,
                           fstype |-> <<"ntfs">>, mountpoint |-> kids[j].mountpoint]]]

\* What one device of a report is built from: its kind and its children's.
DeviceChoices == DeviceKinds \X ChildKindLists

\* The report with the devices chosen by f.
Report_of(f) == [i \in DOMAIN f |-> Device(i, f[i][1], f[i][2])]

\* How lsblk can end: st is its exit ("ok", "fail", "missing"); when it is
\* "ok", json says whether the text it printed parses and f chooses the
\* devices of the report.
LsblkRun_of(st, json, f) ==
    [st |-> st,
     out |-> [json |-> (st = "ok" /\ json),
              blockdevices |-> IF st = "ok" /\ json THEN Report_of(f) ELSE <<>>]]

\* The attributes _get_smart_info extracts, in the order it inserts them.
AttributeNames ==
    <<"Reallocated_Sector_Ct", "Current_Pending_Sector", "Offline_Uncorrectable",
      "UDMA_CRC_Error_Count">>

\* The values an attribute takes in the reports: <<>> when smartctl did not
\* print it, else <<count>>.
AttributeValues ==
    [Reallocated_Sector_Ct  |-> {<<>>, <<0>>, <<5>>, <<10>>, <<20>>},
     Current_Pending_Sector |-> {<<>>, <<0>>, <<3>>, <<10>>},
     Offline_Uncorrectable  |-> {<<0>>, <<1>>, <<5>>},
     UDMA_CRC_Error_Count   |-> {<<0>>, <<15>>}]

\* The items of a dictionary with the keys names[1..n] that have a value.
RECURSIVE Items(_, _, _)
Items(names, choice, n) ==
    IF n = 0 THEN <<>>
    ELSE Items(names, choice, n - 1)
         \o (IF choice[names[n]] = <<>> THEN <<>> ELSE <<<<names[n], choice[names[n]][1]>>>>)

AttributeChoices ==
    {c \in [DOMAIN AttributeValues -> UNION {AttributeValues[n] : n \in DOMAIN AttributeValues}] :
        \A n \in DOMAIN AttributeValues : c[n] \in AttributeValues[n]}

AttributeDicts == {Items(AttributeNames, c, Len(AttributeNames)) : c \in AttributeChoices}

\* Attribute dictionaries of the reports of a device without S.M.A.R.T.
FewAttributeDicts ==
    {<<>>,
     Items(AttributeNames, [n \in DOMAIN AttributeValues |-> <<0>>], Len(AttributeNames)),
     <<<<"Reallocated_Sector_Ct", 20>>, <<"Offline_Uncorrectable", 1>>>>}

OverallHealthTokens == {"PASSED", "FAILED", "UNKNOWN"}

\* error_log_summary; <<>> when the key is missing.
ErrorLogSummaries ==
    {<<"no errors">>, <<"unavailable">>, <<"3 errors, latest: 2024-01-01">>, <<>>}

\* sata_errors; <<>> when the key is missing.
SataErrorDicts ==
    {<<>>,
     <<<<<<"CRC_Error_Count", 0>>, <<"Illegal_State", 0>>, <<"R_ERR_Response", 0>>>>>>,
     <<<<<<"CRC_Error_Count", 3>>>>>>,
     <<<<<<"CRC_Error_Count", 3>>, <<"Illegal_State", 1>>, <<"R_ERR_Response", 2>>>>>>}

\* smart_supported; <<>> when the key is missing.
SupportFlags == {<<TRUE>>, <<FALSE>>, <<>>}

\* The dictionary with the given entries; an entry that is <<>> is left out.
SmartInfo(supported, overall_health, attributes, error_log, sata_errors) ==
    LET base == [overall_health |-> overall_health, attributes |-> attributes]
        f1 == IF supported = <<>> THEN base ELSE base @@ [smart_supported |-> supported[1]]
        f2 == IF error_log = <<>> THEN f1 ELSE f1 @@ [error_log_summary |-> error_log[1]]
    IN  IF sata_errors = <<>> THEN f2 ELSE f2 @@ [sata_errors |-> sata_errors[1]]

\* The good report and the failing report: the reports whose health statuses
\* are kept, the first MaxRepeats of each.
MaxRepeats == 2

HealthyReport ==
    SmartInfo(<<TRUE>>, "PASSED",
              Items(AttributeNames, [n \in DOMAIN AttributeValues |-> <<0>>], Len(AttributeNames)),
              <<"no errors">>, <<>>)

FailingReport ==
    SmartInfo(<<TRUE>>, "FAILED",
              Items(AttributeNames,
                    [n \in DOMAIN AttributeValues |->
                        IF n = "Reallocated_Sector_Ct" THEN <<20>> ELSE <<0>>],
                    Len(AttributeNames)),
              <<"3 errors, latest: 2024-01-01">>, <<>>)

ReferenceReports == {HealthyReport, FailingReport}

\* Device paths given to get_disk_properties.
PropertyPaths ==
    {"/dev/sda", "/dev/sda1", "/dev/nvme0n1p3", "/dev/mapper/vg0-root"}

\* Runs of lsblk for the basic information.
BasicRuns ==
    {[st |-> "ok", out |-> [found |-> TRUE, type |-> "disk"]],
     [st |-> "fail", out |-> [found |-> FALSE, type |-> ""]]}

\* What the summary pass can find in the output of smartctl -a.
Summary(token, unsupported, attributes, temperature, hours) ==
    [token |-> token, unsupported |-> unsupported, attributes |-> attributes,
     temperature |-> temperature, hours |-> hours]

NoSummary == Summary(<<>>, FALSE, <<>>, <<>>, <<>>)

SummaryRuns ==
    {[st |-> "ok", out |-> o] :
        o \in {Summary(<<"PASSED">>, FALSE,
                       Items(AttributeNames, [n \in DOMAIN AttributeValues |-> <<0>>],
                             Len(AttributeNames)),
                       <<35>>, <<1000>>),
               Summary(<<"FAILED">>, FALSE,
                       <<<<"Reallocated_Sector_Ct", 20>>, <<"Offline_Uncorrectable", 1>>>>,
                       <<41>>, <<30000>>),
               Summary(<<"PASSED">>, FALSE, <<>>, <<>>, <<>>),
               Summary(<<>>, TRUE, <<>>, <<>>, <<>>),
               Summary(<<>>, FALSE, <<<<"Reallocated_Sector_Ct", 20>>>>, <<35>>, <<>>)}}
    \cup {[st |-> "fail", out |-> NoSummary], [st |-> "missing", out |-> NoSummary]}

\* What the error-log pass can find in the output of smartctl -l error.
ErrorLog(no_errors, error_log, error_count, recent_date) ==
    [no_errors |-> no_errors, error_log |-> error_log, error_count |-> error_count,
     recent_date |-> recent_date]

NoErrorLog == ErrorLog(FALSE, FALSE, 0, "")

ErrorLogRuns ==
    {[st |-> "ok", out |-> ErrorLog(TRUE, FALSE, 0, "")],
     [st |-> "ok", out |-> ErrorLog(FALSE, TRUE, 3, "2024-01-01")],
     [st |-> "fail", out |-> NoErrorLog], [st |-> "missing", out |-> NoErrorLog]}

\* What the extended pass can find in the output of smartctl -x.
ExtendedRuns ==
    {[st |-> "ok", out |-> [sata_errors |-> <<<<"CRC_Error_Count", 3>>>>]],
     [st |-> "ok", out |-> [sata_errors |->
         <<<<"CRC_Error_Count", 0>>, <<"Illegal_State", 0>>, <<"R_ERR_Response", 0>>>>]],
     [st |-> "fail", out |-> [sata_errors |-> <<>>]],
     [st |-> "missing", out |-> [sata_errors |-> <<>>]]}

\* Runs of lsblk -o FSTYPE -n.
FstypeRuns ==
    {[st |-> "ok", out |-> "ext4\n"], [st |-> "ok", out |-> "ntfs\n"],
     [st |-> "ok", out |-> "exfat\n"], [st |-> "ok", out |-> "\n"],
     [st |-> "fail", out |-> ""], [st |-> "missing", out |-> ""]}

\* What a file system check prints (stdout + stderr).
FsckOutputs ==
    {"clean", "No errors", "Could not", "FAILED", "bad", ""}

FsckRuns ==
    {[st |-> st, out |-> o] : st \in {"ok", "fail"}, o \in FsckOutputs}
    \cup {[st |-> "missing", out |-> ""]}

\* Number of worker threads that are running at once.
NumWorkers == 3

Workers == 1..NumWorkers

\* The devices the worker threads are started on, and the types asked for.
WorkerPaths == {"/dev/sdb1", "/mnt/usb"}

WorkerFsTypes == {"ntfs"}

\* How blkid ends in a worker thread.
WorkerBlkidRuns == {[st |-> "ok", out |-> "ntfs\n"]}

\* A worker thread: where it is in its call (pc), the call, the locals
\* mount_point and the command of the tool, and what the call returned.
Thread(at, op, device_path, fs_type, mount_point, cmd, returned) ==
    [pc |-> at, op |-> op, device_path |-> device_path, fs_type |-> fs_type,
     mount_point |-> mount_point, cmd |-> cmd, result |-> returned]

\* No thread has been started.
NoThread == Thread("idle", "", "", "", "", <<>>, <<>>)

\* A call: the method, its arguments, and for format_disk how the processes
\* it may start would end ("which mkfs.refs" and the formatting tool).
Call(op, path, fs_type, mount_point, which_st, mkfs_st) ==
    [op |-> op, path |-> path, fs_type |-> fs_type, mount_point |-> mount_point,
     which_st |-> which_st, mkfs_st |-> mkfs_st, report |-> <<>>]

NoCall == Call("", "", "", <<>>, "", "")

(***************************************************************************)
(* The state machine                                                       *)
(***************************************************************************)

Init ==
    /\ config = default_config
    /\ dirs = {"/media/usb", "/optical"}
    /\ pc = "idle"
    /\ call = NoCall
    /\ trace = <<>>
    /\ result = <<>>
    /\ raised = ""
    /\ smart_thresholds = initial_smart_thresholds
    /\ smart_info = <<>>
    /\ assessed = <<>>
    /\ workers = [w \in Workers |-> NoThread]
    /\ logger = [_call_count |-> 0, messages |-> <<>>]

MountDisk ==
    /\ pc = "idle"
    /\ \E device_path \in DevicePaths, mount_point \in MountPointArgs,
          mkdir_ok \in BOOLEAN, blkid \in BlkidRuns, mount_st \in ProcStatus :
          LET r == mount_disk(device_path, mount_point, dirs, mkdir_ok, blkid, mount_st)
          IN  /\ call' = Call("mount", device_path, "", mount_point, "", "")
              /\ trace' = r.trace
              /\ result' = r.result
              /\ raised' = r.raised
              /\ dirs' = r.dirs
    /\ pc' = "done"
    /\ UNCHANGED config
    /\ UNCHANGED analyzer
    /\ UNCHANGED threads

FormatDisk ==
    /\ pc = "idle"
    /\ \E device_path \in TargetPaths, fs_type \in FsTypes,
          which_st \in ProcStatus, mkfs_st \in ProcStatus :
          LET r == format_disk(device_path, fs_type, which_st, mkfs_st)
          IN  /\ call' = Call("format", device_path, fs_type, <<>>, which_st, mkfs_st)
              /\ trace' = r.trace
              /\ result' = r.result
              /\ raised' = r.raised
    /\ pc' = "done"
    /\ UNCHANGED <<config, dirs>>
    /\ UNCHANGED analyzer
    /\ UNCHANGED threads

SetPermissions ==
    /\ pc = "idle"
    /\ \E mount_point \in TargetPaths, chmod_st \in ProcStatus :
          LET r == set_permissions(mount_point, chmod_st)
          IN  /\ call' = Call("chmod", mount_point, "", <<>>, "", "")
              /\ trace' = r.trace
              /\ result' = r.result
              /\ raised' = r.raised
    /\ pc' = "done"
    /\ UNCHANGED <<config, dirs>>
    /\ UNCHANGED analyzer
    /\ UNCHANGED threads

OpenFileManager ==
    /\ pc = "idle"
    /\ \E mount_point \in OpenPaths, env \in LauncherEnvs(file_managers(config)) :
          LET r == open_file_manager(mount_point, config, env.which_present, env.st)
          IN  /\ call' = Call("open", mount_point, "", <<>>, "", "")
              /\ trace' = r.trace
              /\ result' = r.result
              /\ raised' = r.raised
    /\ pc' = "done"
    /\ UNCHANGED <<config, dirs>>
    /\ UNCHANGED analyzer
    /\ UNCHANGED threads

\* The caller takes the returned tuple (or the exception); the call is over.
Return ==
    /\ pc = "done"
    /\ pc' = "idle"
    /\ call' = NoCall
    /\ trace' = <<>>
    /\ result' = <<>>
    /\ raised' = ""
    /\ smart_info' = <<>>
    /\ UNCHANGED <<config, dirs, smart_thresholds, assessed>>
    /\ UNCHANGED threads

\* ConfigManager.set_file_manager
SetFileManager ==
    /\ pc = "idle"
    /\ \E file_manager \in {"auto"} \cup LauncherChoices :
          config' = [config EXCEPT !.file_manager = file_manager]
    /\ UNCHANGED <<dirs, pc, call, trace, result, raised>>
    /\ UNCHANGED analyzer
    /\ UNCHANGED threads

\* ConfigManager.set("file_managers_list", ...)
SetFileManagersList ==
    /\ pc = "idle"
    /\ \E list \in LauncherLists :
          config' = [config EXCEPT !.file_managers_list = list]
    /\ UNCHANGED <<dirs, pc, call, trace, result, raised>>
    /\ UNCHANGED analyzer
    /\ UNCHANGED threads

\* ConfigManager.reset_to_defaults
ResetToDefaults ==
    /\ pc = "idle"
    /\ config' = default_config
    /\ UNCHANGED <<dirs, pc, call, trace, result, raised>>
    /\ UNCHANGED analyzer
    /\ UNCHANGED threads

GetUnmountedDisks ==
    /\ pc = "idle"
    /\ \E st \in ProcStatus, json \in BOOLEAN, n \in 0..MaxDevices :
        \E f \in [1..n -> DeviceChoices] :
          LET r == get_unmounted_disks(LsblkRun_of(st, json, f))
          IN  /\ (st = "ok" /\ json) \/ n = 0
              /\ trace' = r.trace
              /\ result' = r.result
              /\ raised' = r.raised
    /\ call' = Call("get_unmounted_disks", "", "", <<>>, "", "")
    /\ pc' = "done"
    /\ UNCHANGED <<config, dirs>>
    /\ UNCHANGED analyzer
    /\ UNCHANGED threads

GetMountedDisks ==
    /\ pc = "idle"
    /\ \E st \in ProcStatus, json \in BOOLEAN, n \in 0..MaxDevices :
        \E f \in [1..n -> DeviceChoices] :
          LET r == get_mounted_disks(LsblkRun_of(st, json, f))
          IN  /\ (st = "ok" /\ json) \/ n = 0
              /\ trace' = r.trace
              /\ result' = r.result
              /\ raised' = r.raised
    /\ call' = Call("get_mounted_disks", "", "", <<>>, "", "")
    /\ pc' = "done"
    /\ UNCHANGED <<config, dirs>>
    /\ UNCHANGED analyzer
    /\ UNCHANGED threads

\* get_filesystem_type called on its own; result holds the returned string.
GetFilesystemType ==
    /\ pc = "idle"
    /\ \E device_path \in {"/dev/sda1", "/dev/sdb"}, blkid \in BlkidRuns :
          LET r == get_filesystem_type(device_path, blkid)
          IN  /\ call' = Call("get_filesystem_type", device_path, "", <<>>, "", "")
              /\ trace' = <<r.ev>>
              /\ result' = IF r.raised THEN <<>> ELSE <<r.value>>
              /\ raised' = IF r.raised THEN "FileNotFoundError" ELSE ""
    /\ pc' = "done"
    /\ UNCHANGED <<config, dirs>>
    /\ UNCHANGED analyzer
    /\ UNCHANGED threads

\* _determine_health_status called with the dictionary _get_smart_info (or
\* a unit test) built.
DetermineHealthStatus ==
    /\ pc = "idle"
    /\ \E supported \in SupportFlags, overall_health \in OverallHealthTokens,
          error_log \in ErrorLogSummaries, sata_errors \in SataErrorDicts :
        \E attributes \in IF supported = <<TRUE>> THEN AttributeDicts ELSE FewAttributeDicts :
          LET info == SmartInfo(supported, overall_health, attributes, error_log, sata_errors)
              r == _determine_health_status(info, smart_thresholds)
          IN  /\ call' = [Call("_determine_health_status", "", "", <<>>, "", "")
                            EXCEPT !.report = info]
              /\ result' = r.health_status
              /\ smart_info' = r.smart_info
              /\ smart_thresholds' = r.smart_thresholds
              /\ assessed' =
                    IF info \notin ReferenceReports THEN assessed
                    ELSE IF info \notin DOMAIN assessed THEN
                        assessed @@ (info :> <<r.health_status>>)
                    ELSE IF Len(assessed[info]) < MaxRepeats THEN
                        [assessed EXCEPT ![info] = Append(@, r.health_status)]
                    ELSE assessed
    /\ pc' = "done"
    /\ trace' = <<>>
    /\ raised' = ""
    /\ UNCHANGED <<config, dirs>>
    /\ UNCHANGED threads

\* The runs of a process the call does not get to start: one stand-in, so
\* that each course of a call is taken once.
NotStarted(runs, started) == IF started THEN runs ELSE {r \in runs : r.st = "missing"}

\* The properties dialog asks for the properties of a device.
GetDiskProperties ==
    /\ pc = "idle"
    /\ \E device_path \in PropertyPaths, basic \in BasicRuns, summary \in SummaryRuns :
        \E error_log \in NotStarted(ErrorLogRuns,
                                    Ran(summary) /\ ~(summary.out.token = <<>>
                                                      /\ summary.out.unsupported)) :
        \E extended \in NotStarted(ExtendedRuns, Ran(error_log)) :
        \E fstype_run \in NotStarted(FstypeRuns, _is_partition(device_path)) :
        \E fsck \in NotStarted(FsckRuns, Ran(fstype_run) /\ Strip(fstype_run.out) # "") :
          LET r == get_disk_properties(device_path, smart_thresholds, basic, summary,
                                       error_log, extended, fstype_run, fsck)
          IN  /\ call' = Call("get_disk_properties", device_path, "", <<>>, "", "")
              /\ trace' = r.trace
              /\ result' = r.result
              /\ raised' = r.raised
    /\ pc' = "done"
    /\ UNCHANGED <<config, dirs>>
    /\ UNCHANGED analyzer
    /\ UNCHANGED threads

(***************************************************************************)
(* mount_disk and format_disk on worker threads                            *)
(* (main.py: mount_thread, format_thread).  Each step is one of the        *)
(* places where a thread touches the file system or a process; the log     *)
(* calls of the two methods are followed in SpecLogger.                    *)
(***************************************************************************)

\* What the worker threads leave alone.
sequential ==
    <<config, pc, call, trace, result, raised, smart_thresholds, smart_info, assessed>>

\* What mount_disk returns when nothing after its validation goes wrong.
mount_validation(device_path) ==
    mount_disk(device_path, <<>>, {resolve_mount_point(device_path, <<>>)}, TRUE,
               [st |-> "ok", out |-> ""], "ok").result

\* What format_disk returns when nothing after its validation goes wrong.
format_validation(device_path, fs_type) == format_disk(device_path, fs_type, "ok", "ok").result

\* mount_thread starts and mount_disk validates its arguments.
BeginMount(w) ==
    /\ workers[w].pc = "idle"
    /\ \E device_path \in WorkerPaths :
          LET mount_point == resolve_mount_point(device_path, <<>>)
              checked == mount_validation(device_path)
          IN  workers' = [workers EXCEPT ![w] =
                  IF checked[1]
                  THEN Thread("exists", "mount", device_path, "", mount_point, <<>>, <<>>)
                  ELSE Thread("done", "mount", device_path, "", mount_point, <<>>, checked)]
    /\ UNCHANGED <<dirs, logger>>
    /\ UNCHANGED sequential

\* if not os.path.exists(mount_point)
ExistsCheck(w) ==
    /\ workers[w].pc = "exists"
    /\ workers' = [workers EXCEPT ![w].pc =
                      IF workers[w].mount_point \in dirs THEN "probe" ELSE "makedirs"]
    /\ UNCHANGED <<dirs, logger>>
    /\ UNCHANGED sequential

\* os.makedirs(mount_point): FileExistsError when the directory exists by
\* now, and it can fail with another OSError; both are caught as OSError.
MakeDirs(w) ==
    /\ workers[w].pc = "makedirs"
    /\ \E mkdir_ok \in BOOLEAN :
          IF workers[w].mount_point \in dirs THEN
              /\ mkdir_ok
              /\ dirs' = dirs
              /\ workers' = [workers EXCEPT
                    ![w].pc = "done",
                    ![w].result =
                        <<FALSE, "failed to create the mount point: FileExistsError", "">>]
          ELSE IF mkdir_ok THEN
              /\ dirs' = dirs \cup {workers[w].mount_point}
              /\ workers' = [workers EXCEPT ![w].pc = "probe"]
          ELSE
              /\ dirs' = dirs
              /\ workers' = [workers EXCEPT
                    ![w].pc = "done",
                    ![w].result = <<FALSE, "failed to create the mount point: OSError", "">>]
    /\ UNCHANGED logger
    /\ UNCHANGED sequential

\* fs_type = self.get_filesystem_type(device_path) and the mount command.
Probe(w) ==
    /\ workers[w].pc = "probe"
    /\ \E blkid \in WorkerBlkidRuns :
          LET fs == get_filesystem_type(workers[w].device_path, blkid)
          IN  workers' = [workers EXCEPT
                  ![w].pc = "start",
                  ![w].fs_type = fs.value,
                  ![w].cmd = mount_cmd(fs.value, workers[w].device_path, workers[w].mount_point)]
    /\ UNCHANGED <<dirs, logger>>
    /\ UNCHANGED sequential

\* format_thread starts and format_disk validates its arguments.
BeginFormat(w) ==
    /\ workers[w].pc = "idle"
    /\ \E device_path \in WorkerPaths, fs_type \in WorkerFsTypes :
          LET checked == format_validation(device_path, fs_type)
          IN  workers' = [workers EXCEPT ![w] =
                  IF checked[1]
                  THEN Thread("start", "format", device_path, fs_type, "",
                              format_cmd(fs_type, device_path), <<>>)
                  ELSE Thread("done", "format", device_path, fs_type, "", <<>>, checked)]
    /\ UNCHANGED <<dirs, logger>>
    /\ UNCHANGED sequential

\* Faulty variant of StartTool: a tool is started only when no other thread
\* has a tool running on the same device.
StartToolExclusive(w) ==
    /\ workers[w].pc = "start"
    /\ \A v \in Workers \ {w} :
          ~(workers[v].pc = "running" /\ workers[v].device_path = workers[w].device_path)
    /\ workers' = [workers EXCEPT ![w].pc = "running"]
    /\ UNCHANGED <<dirs, logger>>
    /\ UNCHANGED sequential

\* subprocess.check_call(cmd) starts the tool.
StartTool(w) ==
    /\ workers[w].pc = "start"
    /\ workers' = [workers EXCEPT ![w].pc = "running"]
    /\ UNCHANGED <<dirs, logger>>
    /\ UNCHANGED sequential

\* The tool exits and the method returns.
ToolExits(w) ==
    /\ workers[w].pc = "running"
    /\ \E st \in {"ok", "fail"} :
          workers' = [workers EXCEPT
              ![w].pc = "done",
              ![w].result =
                  IF workers[w].op = "mount" THEN
                      IF st = "ok" THEN <<TRUE, workers[w].mount_point, "">>
                      ELSE <<FALSE, "failed to mount " \o workers[w].device_path
                                    \o ": CalledProcessError", "">>
                  ELSE
                      IF st = "ok" THEN <<TRUE, "">>
                      ELSE <<FALSE, "failed to format " \o workers[w].device_path
                                    \o ": CalledProcessError">>]
    /\ UNCHANGED <<dirs, logger>>
    /\ UNCHANGED sequential

(***************************************************************************)
(* Logger._write_log called from the worker threads.  The statement        *)
(* self._call_count += 1 reads the attribute, adds one and stores it back; *)
(* nothing keeps another thread from running between the read and the     *)
(* store.  list.append is a single step.                                   *)
(***************************************************************************)

\* Number of logging calls one thread makes.
MaxLogCalls == 2

\* A thread between logging calls: loaded is its copy of _call_count,
\* calls the number of logging calls it has completed.
Logging(at, message, loaded, calls) ==
    [pc |-> at, message |-> message, loaded |-> loaded, calls |-> calls]

NoLogging == Logging("idle", "", 0, 0)

LogMessages == {"mounting"}

\* The logger is new and no thread has logged anything.
InitLogger ==
    /\ config = default_config
    /\ dirs = {"/media/usb", "/optical"}
    /\ pc = "idle"
    /\ call = NoCall
    /\ trace = <<>>
    /\ result = <<>>
    /\ raised = ""
    /\ smart_thresholds = initial_smart_thresholds
    /\ smart_info = <<>>
    /\ assessed = <<>>
    /\ workers = [w \in Workers |-> NoLogging]
    /\ logger = [_call_count |-> 0, messages |-> <<>>]

\* self.logger.info(message) is called; _write_log reads self._call_count.
LoadCount(w) ==
    /\ workers[w].pc = "idle"
    /\ workers[w].calls < MaxLogCalls
    /\ \E message \in LogMessages :
          workers' = [workers EXCEPT ![w] =
                         Logging("store", message, logger._call_count, workers[w].calls)]
    /\ UNCHANGED <<dirs, logger>>
    /\ UNCHANGED sequential

\* The sum is stored in self._call_count.
StoreCount(w) ==
    /\ workers[w].pc = "store"
    /\ logger' = [logger EXCEPT !._call_count = workers[w].loaded + 1]
    /\ workers' = [workers EXCEPT ![w].pc = "append"]
    /\ UNCHANGED dirs
    /\ UNCHANGED sequential

\* self.messages.append(message)
AppendMessage(w) ==
    /\ workers[w].pc = "append"
    /\ logger' = [logger EXCEPT !.messages = Append(@, workers[w].message)]
    /\ workers' = [workers EXCEPT ![w].pc = "write"]
    /\ UNCHANGED dirs
    /\ UNCHANGED sequential

\* The line is written to the log file and _write_log returns.
WriteLine(w) ==
    /\ workers[w].pc = "write"
    /\ workers' = [workers EXCEPT ![w] = Logging("idle", "", 0, workers[w].calls + 1)]
    /\ UNCHANGED <<dirs, logger>>
    /\ UNCHANGED sequential

Next ==
    \/ MountDisk
    \/ FormatDisk
    \/ SetPermissions
    \/ OpenFileManager
    \/ Return

Spec == Init /\ [][Next]_vars

NextConfig ==
    \/ SetFileManager
    \/ SetFileManagersList
    \/ ResetToDefaults
    \/ OpenFileManager
    \/ Return

\* The settings dialog changes the launcher configuration between calls of
\* open_file_manager.
SpecConfig == Init /\ [][NextConfig]_vars

NextInventory ==
    \/ GetUnmountedDisks
    \/ GetMountedDisks
    \/ GetFilesystemType
    \/ Return

\* The disk lists of the main window are refreshed and file system types
\* are probed.
SpecInventory == Init /\ [][NextInventory]_vars

NextScore ==
    \/ DetermineHealthStatus
    \/ Return

\* The properties dialog assesses one report after another.
SpecScore == Init /\ [][NextScore]_vars

NextDiagnostics ==
    \/ GetDiskProperties
    \/ Return

\* The properties of one device after another are asked for.
SpecDiagnostics == Init /\ [][NextDiagnostics]_vars

NextWorkers ==
    \E w \in Workers :
        \/ BeginMount(w)
        \/ ExistsCheck(w)
        \/ MakeDirs(w)
        \/ Probe(w)
        \/ BeginFormat(w)
        \/ StartTool(w)
        \/ ToolExits(w)

SpecWorkers == Init /\ [][NextWorkers]_vars

NextLogger ==
    \E w \in Workers :
        \/ LoadCount(w)
        \/ StoreCount(w)
        \/ AppendMessage(w)
        \/ WriteLine(w)

SpecLogger == InitLogger /\ [][NextLogger]_vars

(***************************************************************************)
(* Vocabulary of the properties, stated independently of the methods       *)
(***************************************************************************)

SpawnIdx == {i \in DOMAIN trace : trace[i].kind = "spawn"}

CheckIdx == {i \in DOMAIN trace : trace[i].kind = "check"}

MkdirIdx == {i \in DOMAIN trace : trace[i].kind = "mkdir"}

\* Starts of the mount tool, of a formatting tool, of chmod.
MountIdx == {i \in SpawnIdx : trace[i].argv[1] = "mount"}

MkfsIdx == {i \in SpawnIdx : StartsWith(trace[i].argv[1], "mkfs.")}

ChmodIdx == {i \in SpawnIdx : trace[i].argv[1] = "chmod"}

\* The call returned a tuple whose first element is False.
Failed == raised = "" /\ Len(result) >= 2 /\ result[1] = FALSE

\* The call returned a tuple whose first element is True.
Succeeded == raised = "" /\ Len(result) >= 2 /\ result[1] = TRUE

ShellChars == {";", "&", "|", Backquote, "$"}

\* An absolute path free of the characters ; & | backquote $.
CleanAbsolute(p) ==
    /\ Len(p) > 0
    /\ SubSeq(p, 1, 1) = "/"
    /\ \A i \in 1..Len(p) : SubSeq(p, i, i) \notin ShellChars

ProtectedSet ==
    {"/", "/boot", "/etc", "/usr", "/var", "/bin", "/sbin", "/lib", "/lib64",
     "/opt", "/root", "/proc", "/sys", "/dev", "/run"}

\* p is a protected directory or lies below one.
UnderProtected(p) ==
    \E d \in ProtectedSet :
        /\ Len(p) >= Len(d)
        /\ SubSeq(p, 1, Len(d)) = d
        /\ (Len(p) = Len(d) \/ SubSeq(p, Len(d) + 1, Len(d) + 1) = "/")

FormatAllowList == {"ntfs", "exfat", "ext4", "ext3", "ext2", "fat32", "vfat", "refs"}

\* The mount point a mount call works on.
CallMountPoint ==
    IF call.mount_point = <<>> THEN "/mnt/" \o basename(call.path) ELSE call.mount_point[1]

\* The request of the last call satisfies every validation rule of its operation.
RequestIsValid ==
    /\ CleanAbsolute(call.path)
    /\ call.op = "mount" => CleanAbsolute(CallMountPoint) /\ ~UnderProtected(CallMountPoint)
    /\ call.op = "format" => call.fs_type \in FormatAllowList /\ ~UnderProtected(call.path)
    /\ call.op = "chmod" => ~UnderProtected(call.path)

\* C1: in every call of mount, format, set-permissions or open-in-manager no
\* process is started before all validation checks of the request have
\* passed: every check comes before every process start, a call with a failed
\* check starts no process, and a call that started a process had a request
\* that satisfies every validation rule of its operation.
C1_ValidationBeforeSpawn ==
    pc = "done" =>
        /\ \A i \in CheckIdx, j \in SpawnIdx : i < j
        /\ (\E i \in CheckIdx : ~trace[i].ok) => (SpawnIdx = {} /\ Failed)
        /\ SpawnIdx # {} => RequestIsValid

\* A format request that passed path and type validation but names a
\* protected target: rejected at the third check, nothing started.
C1_Witness ==
    /\ pc = "done"
    /\ call.op = "format"
    /\ Len(trace) = 3
    /\ trace[1].ok /\ trace[2].ok /\ ~trace[3].ok
    /\ SpawnIdx = {}

\* C2: every process any operation starts is started from an argv list,
\* never through a shell.
C2_NoShell == \A i \in SpawnIdx : ~trace[i].shell

\* Path strings the validator is required to reject.
Dangerous(p) ==
    \/ \E i \in 1..Len(p) : SubSeq(p, i, i) \in {";", "&", "|", Backquote}
    \/ \E i \in 1..(Len(p) - 1) : SubSeq(p, i, i + 1) \in {"$(", ".."}

\* C3: a mount or format call whose path contains ; & | backquote $( or ..
\* is rejected by the path check (the first check of the call) and returns
\* failure without starting the mount or a formatting tool.
C3_DangerousPathRejected ==
    (pc = "done" /\ call.op \in {"mount", "format"} /\ Dangerous(call.path)) =>
        /\ ~trace[1].ok
        /\ Failed
        /\ MountIdx = {} /\ MkfsIdx = {}

\* The message of the returned tuple classifies the target as a protected
\* system directory.
SaysProtected == Len(result) >= 2 /\ Contains(result[2], "system directory")

SaysUnsupported == Len(result) >= 2 /\ Contains(result[2], "unsupported file system type")

SaysInvalidPath == Len(result) >= 2 /\ Contains(result[2], "invalid")

IsDeviceNode(p) ==
    /\ Len(p) > 5
    /\ SubSeq(p, 1, 5) = "/dev/"
    /\ \A i \in 6..Len(p) :
          \E k \in 1..36 : SubSeq(p, i, i) = SubSeq("abcdefghijklmnopqrstuvwxyz0123456789", k, k)

\* C5: for a device path such as /dev/sda1 and a type of ntfs, exfat or refs
\* whose tool is available, format starts the formatting tool of that type
\* exactly once with the device path as its argument, and returns success
\* when the tool exits with status zero.
C5_FormatReachesTool ==
    (/\ pc = "done" /\ call.op = "format"
     /\ IsDeviceNode(call.path)
     /\ call.fs_type \in {"ntfs", "exfat", "refs"}
     /\ (call.fs_type = "refs" => call.which_st = "ok")
     /\ call.mkfs_st # "missing") =>
        /\ Cardinality(MkfsIdx) = 1
        /\ \A i \in MkfsIdx :
              /\ trace[i].argv[1] = "mkfs." \o call.fs_type
              /\ trace[i].argv[Len(trace[i].argv)] = call.path
        /\ call.mkfs_st = "ok" => Succeeded

\* C6: for every type string outside the format allow-list, in any letter
\* case, empty or holding shell characters, format (of a path that passes the
\* path check) fails with the unsupported-file-system message and starts no
\* process at all, neither the availability probe nor a formatting tool.
C6_UnsupportedTypeRejected ==
    (/\ pc = "done" /\ call.op = "format"
     /\ CleanAbsolute(call.path)
     /\ call.fs_type \notin FormatAllowList) =>
        Failed /\ SaysUnsupported /\ SpawnIdx = {}

\* An upper-case variant of an allow-listed type, refused before any process.
C6_Witness ==
    /\ pc = "done"
    /\ call.op = "format"
    /\ call.path = "/dev/sda1"
    /\ call.fs_type = "NTFS"
    /\ Failed /\ SaysUnsupported /\ SpawnIdx = {}

SaysToolNotFound == Len(result) >= 2 /\ Contains(result[2], "ReFS tools not found")

\* C7: when format is requested with type refs (for a device path) and the
\* ReFS formatting tool is not installed, format fails with the distinct
\* tool-not-found message and the formatting tool is never started.
C7_RefsToolMissing ==
    (/\ pc = "done" /\ call.op = "format"
     /\ IsDeviceNode(call.path)
     /\ call.fs_type = "refs"
     /\ call.which_st # "ok") =>
        Failed /\ SaysToolNotFound /\ MkfsIdx = {}

\* The file system type the prober reported in the last call: its trimmed
\* output, or the empty string when it exited with a non-zero status.
BlkidIdx == {i \in SpawnIdx : trace[i].argv[1] = "blkid"}

ProbedType(i) == IF trace[i].ok THEN Strip(trace[i].out) ELSE ""

\* <<a, b>> are adjacent elements of argv.
HasPair(argv, a, b) == \E k \in 1..(Len(argv) - 1) : argv[k] = a /\ argv[k + 1] = b

\* C8: whenever mount reaches the mount tool, its argv holds "-t ntfs-3g"
\* exactly when the probed type is ntfs, "-t exfat" exactly when it is exfat,
\* no "-t" at all for any other probed type (unknown and empty included), and
\* the device path and the mount point are its last two arguments.
C8_MountArgv ==
    (pc = "done" /\ call.op = "mount") =>
        \A m \in MountIdx :
            LET argv == trace[m].argv
                n == Len(argv)
            IN  /\ Cardinality(BlkidIdx) = 1
                /\ \A b \in BlkidIdx :
                      /\ b < m
                      /\ HasPair(argv, "-t", "ntfs-3g") <=> ProbedType(b) = "ntfs"
                      /\ HasPair(argv, "-t", "exfat") <=> ProbedType(b) = "exfat"
                      /\ ProbedType(b) \notin {"ntfs", "exfat"} =>
                            (n = 3 /\ \A k \in 1..n : argv[k] # "-t")
                      /\ ProbedType(b) \in {"ntfs", "exfat"} => n = 5
                /\ argv[n - 1] = call.path
                /\ argv[n] = CallMountPoint

\* The mount tool started for a device whose probed type is neither ntfs nor
\* exfat: no -t flag.
C8_Witness ==
    /\ pc = "done"
    /\ call.op = "mount"
    /\ \E m \in MountIdx, b \in BlkidIdx :
          ProbedType(b) = "ext4" /\ trace[m].argv = <<"mount", call.path, CallMountPoint>>

\* C9: the mount tool is started only when the resolved mount point is not a
\* protected directory nor below one, and exists (it was present, or this
\* call created it); for a protected mount point mount fails without creating
\* a directory; and when creating the absent mount point fails, mount fails
\* without starting the mount tool.
C9_MountPointGuard ==
    (pc = "done" /\ call.op = "mount") =>
        /\ MountIdx # {} =>
              /\ ~UnderProtected(CallMountPoint)
              /\ CallMountPoint \in dirs
              /\ \A k \in MkdirIdx : trace[k].ok /\ trace[k].what = CallMountPoint
              /\ \A k \in MkdirIdx, m \in MountIdx : k < m
        /\ (CleanAbsolute(call.path) /\ UnderProtected(CallMountPoint)) =>
              (Failed /\ MkdirIdx = {} /\ SpawnIdx = {} /\ CallMountPoint \notin dirs)
        /\ (\E k \in MkdirIdx : ~trace[k].ok) =>
              (Failed /\ MountIdx = {} /\ CallMountPoint \notin dirs)

\* Creating the absent mount point failed: mount failed, no mount tool.
C9_Witness ==
    /\ pc = "done"
    /\ call.op = "mount"
    /\ \E k \in MkdirIdx : ~trace[k].ok
    /\ Failed /\ MountIdx = {}

\* Starts of a file manager (as opposed to "which" look-ups).
LaunchIdx == {i \in SpawnIdx : trace[i].shell \/ trace[i].argv[1] # "which"}

\* The list entry a launch belongs to.
Launched(i) ==
    IF trace[i].shell
    THEN SubSeq(trace[i].argv[1], 1, Len(trace[i].argv[1]) - Len(call.path) - 1)
    ELSE trace[i].argv[1]

\* which reported entry m as installed before position i of the trace.
FoundInstalled(m, i) ==
    \E w \in SpawnIdx : w < i /\ trace[w].argv = <<"which", m>> /\ trace[w].ok

\* C10: open-in-manager tries the entries of the launcher list in order,
\* starts no entry that is not installed, stops with success at the first
\* entry that starts (exactly one successful start, the last thing the call
\* does), and fails only when every entry has been tried without a
\* successful start.
C10_FirstInstalledLauncher ==
    (pc = "done" /\ call.op = "open" /\ CleanAbsolute(call.path)) =>
        LET list == file_managers(config)
            started == {i \in LaunchIdx : trace[i].ok}
        IN  /\ \A i \in LaunchIdx : FoundInstalled(Launched(i), i)
            /\ \A i, j \in LaunchIdx :
                  i < j => \E a, b \in 1..Len(list) :
                              a < b /\ list[a] = Launched(i) /\ list[b] = Launched(j)
            /\ Succeeded => (Cardinality(started) = 1 /\ Len(trace) \in started)
            /\ Failed => (started = {} /\
                            \A k \in 1..Len(list) :
                                \E w \in SpawnIdx : trace[w].argv = <<"which", list[k]>>)

\* The text a returned tuple carries besides its success flag.
HasMessage == \E i \in 2..Len(result) : result[i] # ""

\* The call did not do what it was asked to: a check failed, a directory
\* could not be created, a tool it needed was not installed or exited with a
\* non-zero status (the type probe of mount is advisory: its non-zero exit
\* leaves the type unknown), or no file manager could be started.
DidNotSucceed ==
    \/ \E i \in CheckIdx \cup MkdirIdx : ~trace[i].ok
    \/ \E i \in SpawnIdx \ BlkidIdx : ~trace[i].ok /\ call.op # "open"
    \/ \E i \in BlkidIdx : trace[i].what = "missing"
    \/ call.op = "open" /\ ~\E i \in LaunchIdx : trace[i].ok

\* C11: every call of mount, format, set-permissions or open-in-manager ends
\* by returning a result tuple, no exception escapes to the caller, and
\* whenever the operation did not succeed (validation failure, tool not
\* installed, tool exits non-zero, mount-point creation failure) the tuple has
\* success = False and a non-empty message.
C11_FailureIsReturned ==
    pc = "done" =>
        /\ raised = ""
        /\ Len(result) >= 2
        /\ DidNotSucceed => (Failed /\ HasMessage)

\* The start of lsblk in the trace of a list call, and what it printed.
LsblkIdx == {i \in SpawnIdx : trace[i].argv[1] = "lsblk"}

LsblkRun == trace[CHOOSE i \in LsblkIdx : TRUE]

Report == LsblkRun.out.blockdevices

WellFormed == LsblkRun.ok /\ LsblkRun.out.json

\* Positions of a report: <<i, 0>> is the i-th top-level device, <<i, j>> its
\* j-th child; report order is the order in which lsblk prints them.
Positions ==
    {<<i, 0>> : i \in 1..Len(Report)}
    \cup UNION {{<<i, j>> : j \in 1..Len(Report[i].children)} : i \in 1..Len(Report)}

EntryAt(pos) == IF pos[2] = 0 THEN Report[pos[1]] ELSE Report[pos[1]].children[pos[2]]

Precedes(p, q) == p[1] < q[1] \/ (p[1] = q[1] /\ p[2] < q[2])

UnmountedDiskPos ==
    {pos \in Positions : pos[2] = 0 /\ EntryAt(pos).type = "disk" /\ EntryAt(pos).mountpoint = <<>>}

UnmountedPartPos ==
    {pos \in Positions : pos[2] # 0 /\ EntryAt(pos).type = "part" /\ EntryAt(pos).mountpoint = <<>>}

\* The descriptor of a report entry.
Descriptor(entry) ==
    [name |-> entry.name, path |-> "/dev/" \o entry.name, size |-> entry.size,
     type |-> entry.type, fstype |-> entry.fstype]

ErrorLogged == \E i \in DOMAIN trace : trace[i].kind = "log" /\ trace[i].what = "error"

\* C12: for every report of the enumerator, the list of unmounted devices
\* holds exactly the disk and partition entries whose mount point is absent,
\* in report order (each top-level disk followed by its qualifying
\* children); n unmounted disks and m unmounted partitions give n + m
\* descriptors with pairwise distinct paths.
C12_UnmountedExactlyInOrder ==
    (pc = "done" /\ call.op = "get_unmounted_disks" /\ raised = "" /\ WellFormed) =>
        LET qualifying == UnmountedDiskPos \cup UnmountedPartPos
        IN  /\ Len(result) = Cardinality(UnmountedDiskPos) + Cardinality(UnmountedPartPos)
            /\ \A k \in 1..Len(result) :
                  \E pos \in qualifying :
                      /\ result[k] = Descriptor(EntryAt(pos))
                      /\ Cardinality({q \in qualifying : Precedes(q, pos)}) = k - 1
            /\ \A a, b \in 1..Len(result) : a # b => result[a].path # result[b].path

\* Two unmounted disks carrying three unmounted partitions give five
\* descriptors.
C12_Witness ==
    /\ pc = "done" /\ call.op = "get_unmounted_disks" /\ raised = "" /\ WellFormed
    /\ Cardinality(UnmountedDiskPos) = 2
    /\ Cardinality(UnmountedPartPos) = 3
    /\ Len(result) = 5

C14_NoEmptyFilesystemType ==
    (pc = "done" /\ call.op = "get_filesystem_type") =>
        /\ \A i \in BlkidIdx :
              (~trace[i].ok \/ Strip(trace[i].out) = "") => raised # ""
        /\ raised = "" => result[1] # ""

\* The dictionary the last call of _determine_health_status was given.
Info == call.report

Field(key, default) == IF key \in DOMAIN Info THEN Info[key] ELSE default

Assessing == pc = "done" /\ call.op = "_determine_health_status"

Supported == Field("smart_supported", FALSE)

AttributeItems == Field("attributes", <<>>)

SataItems == Field("sata_errors", <<>>)

TokenDeduction ==
    IF Field("overall_health", "") = "PASSED" THEN 0
    ELSE IF Field("overall_health", "") = "FAILED" THEN 50
    ELSE 10

\* Attributes above the critical threshold, and those above normal only.
CriticalItems ==
    {k \in DOMAIN AttributeItems :
        AttributeItems[k][2] > initial_smart_thresholds[AttributeItems[k][1]].critical}

WarningItems ==
    {k \in DOMAIN AttributeItems \ CriticalItems :
        AttributeItems[k][2] > initial_smart_thresholds[AttributeItems[k][1]].normal}

AttributeDeduction == 30 * Cardinality(CriticalItems) + 10 * Cardinality(WarningItems)

LogDeduction ==
    IF Field("error_log_summary", "") \in {"no errors", "unavailable"} THEN 0 ELSE 15

NonzeroCounters == {k \in DOMAIN SataItems : SataItems[k][2] # 0}

SataDeduction == 5 * Cardinality(NonzeroCounters)

Deductions ==
    (IF TokenDeduction > 0 THEN 1 ELSE 0) + Cardinality(CriticalItems)
    + Cardinality(WarningItems) + (IF LogDeduction > 0 THEN 1 ELSE 0)
    + Cardinality(NonzeroCounters)

\* C15: for a report with S.M.A.R.T. support the score is 100 minus the
\* deduction of the overall-health token (FAILED 50, PASSED 0, other 10),
\* minus the attribute deductions, minus 15 when the error log summary is
\* neither "no errors" nor "unavailable", minus 5 per nonzero SATA counter,
\* and the issue list has one entry per deduction; PASSED with all four
\* attributes 0 and "no errors" gives Normal, 100 and no issue.
C15_ScoreFormula ==
    (Assessing /\ Supported) =>
        /\ result.score =
              100 - TokenDeduction - AttributeDeduction - LogDeduction - SataDeduction
        /\ Len(result.issues) = Deductions
        /\ Info = HealthyReport =>
              (result.status = "Normal" /\ result.score = 100 /\ result.issues = <<>>)

\* Every kind of deduction at once.
C15_Witness ==
    /\ Assessing /\ Supported
    /\ TokenDeduction = 10 /\ AttributeDeduction > 0 /\ LogDeduction = 15
    /\ SataDeduction = 15
    /\ Len(result.issues) = Deductions

IssueOf(item, level) == item[1] \o ": " \o ToString(item[2]) \o " (" \o level \o ")"

Reported(text) == \E k \in DOMAIN result.issues : result.issues[k] = text

C17_StatusFromScore ==
    (Assessing /\ Supported) =>
        /\ result.status = "Normal" <=> result.score >= 90
        /\ result.status = "Degraded" <=> (70 <= result.score /\ result.score <= 89)
        /\ result.status = "Failing" <=> result.score < 70
        /\ 100 - TokenDeduction - AttributeDeduction - LogDeduction - SataDeduction < 0 =>
              result.score < 0

\* A negative score is reported and classified as Failing.
C17_Witness ==
    /\ Assessing /\ Supported
    /\ result.score < 0 /\ result.status = "Failing"

\* C18: for every report the score of the health status is an integer
\* between 0 and 100.
C18_ScoreInRange ==
    Assessing => (result.score \in Int /\ 0 <= result.score /\ result.score <= 100)

\* C19: when smart_supported is false or missing, the status is Unknown, the
\* score 0 and there is exactly one issue, that S.M.A.R.T. is not supported,
\* whatever the token, the attributes, the error log and the SATA counters
\* of the report are.
C19_Unsupported ==
    (Assessing /\ ~Supported) =>
        /\ result.status = "Unknown"
        /\ result.score = 0
        /\ result.issues = <<"S.M.A.R.T. is not supported">>

\* A report without the flag whose other fields would all cost points.
C19_Witness ==
    /\ Assessing /\ "smart_supported" \notin DOMAIN Info
    /\ TokenDeduction = 50 /\ AttributeDeduction > 0 /\ LogDeduction = 15 /\ SataDeduction > 0
    /\ result.score = 0 /\ Len(result.issues) = 1

Analyzed == pc = "done" /\ call.op = "get_disk_properties" /\ raised = ""

\* The base name of the path ends in a digit.
EndsInDigit(path) ==
    LET name == basename(path)
    IN  Len(name) > 0 /\ IsDigit(CharAt(name, Len(name)))

\* The last position of the path that does not hold a digit.
LastNonDigit(path) ==
    LET others == {i \in 1..Len(path) : ~IsDigit(CharAt(path, i))}
    IN  IF others = {} THEN 0 ELSE CHOOSE i \in others : \A j \in others : j <= i

\* C23: a path is classified as a partition exactly when its base name ends
\* in a run of digits; the parent path reported for it is the path without
\* that run, a proper prefix of the path and never the path itself; a path
\* classified as a whole disk is given no parent.
C23_PartitionIffTrailingDigits ==
    Analyzed =>
        /\ result.is_partition <=> EndsInDigit(call.path)
        /\ "parent_disk" \in DOMAIN result =>
              /\ result.is_partition
              /\ result.parent_disk = SubSeq(call.path, 1, LastNonDigit(call.path))
              /\ Len(result.parent_disk) < Len(call.path)
              /\ result.parent_disk # call.path
        /\ ~result.is_partition => "parent_disk" \notin DOMAIN result

\* The devices the S.M.A.R.T. passes of the call were run on.
SmartTargets ==
    {trace[i].argv[Len(trace[i].argv)] :
        i \in {j \in 1..Len(trace) : trace[j].kind = "spawn" /\ trace[j].argv[1] = "smartctl"}}

\* The devices whose file system the call looked at.
FilesystemTargets ==
    {trace[i].argv[Len(trace[i].argv)] :
        i \in {j \in 1..Len(trace) : /\ trace[j].kind = "spawn"
                                     /\ trace[j].argv[1] \in {"fsck", "ntfsfix", "fatresize"}}}

\* The report has the shape of a whole disk's: its own S.M.A.R.T. data and
\* the assessment of them, no file system check and no parent.
WholeDiskReport ==
    /\ {"smart_info", "health_status"} \subseteq DOMAIN result
    /\ DOMAIN result \cap {"filesystem_info", "parent_disk", "parent_smart_info"} = {}
    /\ SmartTargets = {call.path}
    /\ FilesystemTargets = {}
    /\ result.health_status =
           _determine_health_status(result.smart_info, smart_thresholds).health_status

\* The report has the shape of a partition's: the parent disk, the parent's
\* S.M.A.R.T. data and the assessment of them, the partition's own file
\* system check, and no S.M.A.R.T. data of its own.
PartitionReport ==
    /\ {"parent_disk", "parent_smart_info", "health_status", "filesystem_info"}
           \subseteq DOMAIN result
    /\ "smart_info" \notin DOMAIN result
    /\ result.parent_disk # call.path
    /\ SmartTargets = {result.parent_disk}
    /\ FilesystemTargets \subseteq {call.path}
    /\ result.health_status =
           _determine_health_status(result.parent_smart_info, smart_thresholds).health_status

\* C21: the report of a whole disk (a base name that does not end in digits)
\* carries that disk's S.M.A.R.T. data and the assessment of them and no
\* file system check or parent fields; the report of a partition carries the
\* parent disk's path, the parent's S.M.A.R.T. data, the assessment of the
\* parent's data and the partition's own file system check, and no
\* S.M.A.R.T. data field of its own.
C21_ReportShape ==
    Analyzed => IF EndsInDigit(call.path) THEN PartitionReport ELSE WholeDiskReport

\* The S.M.A.R.T. report of the call: the device's own or its parent's.
SmartReport ==
    IF "smart_info" \in DOMAIN result THEN result.smart_info ELSE result.parent_smart_info

\* The runs of smartctl with the given flag that the call started.
SmartPass(flag) ==
    {trace[i] : i \in {j \in 1..Len(trace) : /\ trace[j].kind = "spawn"
                                             /\ trace[j].argv[1] = "smartctl"
                                             /\ trace[j].argv[2] = flag}}

\* The summary pass found a health token and attribute values.
SummaryProduced ==
    /\ Analyzed
    /\ DOMAIN result \cap {"smart_info", "parent_smart_info"} # {}
    /\ \E s \in SmartPass("-a") : s.ok /\ s.out.token # <<>> /\ s.out.attributes # <<>>

\* A later pass was started and did not succeed: it exited with an error or
\* its tool could not be started.
LaterPassFailed == \E e \in SmartPass("-l") \cup SmartPass("-x") : ~e.ok

\* C22: the three S.M.A.R.T. passes are independently best-effort: when the
\* summary pass gave a token and attributes and a later pass fails or its
\* tool is missing, the report still carries the fields of the summary pass
\* with smart_supported unchanged, and only the fields of the failed pass
\* are at their defaults; the analysis does not abort.
C22_PassesAreBestEffort ==
    SummaryProduced /\ LaterPassFailed =>
        \A s \in SmartPass("-a") :
            /\ "error" \notin DOMAIN SmartReport
            /\ SmartReport.smart_supported
            /\ SmartReport.overall_health = s.out.token[1]
            /\ SmartReport.attributes = s.out.attributes
            /\ SmartReport.temperature = after_summary(s.out).temperature
            /\ SmartReport.power_on_hours = after_summary(s.out).power_on_hours
            /\ \A e \in SmartPass("-l") :
                  SmartReport.error_log_summary =
                      IF e.ok THEN after_error_log(smart_defaults, e.out).error_log_summary
                      ELSE smart_defaults.error_log_summary
            /\ \A e \in SmartPass("-x") :
                  ~e.ok => "sata_errors" \notin DOMAIN SmartReport

\* The runs of a file system check that the call started and that ended
\* with an exit status.
ChecksRun ==
    {trace[i] : i \in {j \in 1..Len(trace) : /\ trace[j].kind = "spawn"
                                             /\ trace[j].argv[1] \in {"fsck", "ntfsfix", "fatresize"}
                                             /\ trace[j].what # "missing"}}

\* The file system type that lsblk printed for the device, "" when none.
PrintedFstype ==
    LET runs == {j \in 1..Len(trace) : /\ trace[j].kind = "spawn"
                                       /\ trace[j].argv[1] = "lsblk"
                                       /\ trace[j].argv[3] = "FSTYPE"}
    IN  IF runs = {} THEN "" ELSE Strip(trace[CHOOSE j \in runs : TRUE].out)

\* The class the claim gives to an exit status and the printed text.
ClassOf(exit_zero, text) ==
    LET low == Lower(text)
    IN  IF exit_zero
        THEN IF Contains(low, "clean") \/ Contains(low, "no errors")
             THEN "no errors" ELSE "minor errors"
        ELSE IF Contains(low, "could not") \/ Contains(low, "failed")
             THEN "check failed" ELSE "severe errors"

\* C24: a file system check is run only for a partition whose file system
\* type is known, and its result is classified from the exit status and the
\* text of stdout and stderr: exit 0 with 'clean' or 'no errors' is
\* no-errors, exit 0 otherwise minor-errors, non-zero with 'could not' or
\* 'failed' check-failed, non-zero otherwise severe-errors.
C24_FilesystemCheckClass ==
    Analyzed =>
        /\ FilesystemTargets # {} =>
              /\ result.is_partition
              /\ FilesystemTargets = {call.path}
              /\ PrintedFstype # ""
        /\ \A e \in ChecksRun :
              /\ result.filesystem_info.fstype = PrintedFstype
              /\ result.filesystem_info.fsck_result = ClassOf(e.ok, e.out)
              /\ result.filesystem_info.fsck_result
                     \in {"no errors", "minor errors", "check failed", "severe errors"}

\* A check that exited with an error and printed FAILED was classified as
\* check-failed.
C24_Witness ==
    /\ Analyzed
    /\ \E e \in ChecksRun : ~e.ok /\ e.out = "FAILED"
    /\ result.filesystem_info.fsck_result = "check failed"

(***************************************************************************)
(* Properties of one call: no retry, no rollback                           *)
(***************************************************************************)

\* Starts of the tool the call is about: mount, a formatting tool or chmod.
TargetIdx ==
    IF call.op = "mount" THEN MountIdx
    ELSE IF call.op = "format" THEN MkfsIdx
    ELSE IF call.op = "chmod" THEN ChmodIdx
    ELSE {}

\* The directories the call created.
Created == {trace[i].what : i \in {j \in MkdirIdx : trace[j].ok}}

\* C27: within one call of mount_disk, format_disk or set_permissions the
\* target tool (mount, mkfs.*, chmod) is started at most once; once it has
\* failed nothing more is done: no further process is started, the call does
\* not succeed, a non-zero exit is returned as a failure, and nothing is
\* rolled back: a mount point the call created stays in place.
C27_NoRetryNoRollback ==
    pc = "done" /\ call.op \in {"mount", "format", "chmod"} =>
        /\ Cardinality(TargetIdx) <= 1
        /\ \A i \in TargetIdx :
              ~trace[i].ok =>
                  /\ i = Len(trace)
                  /\ ~Succeeded
                  /\ trace[i].what = "fail" => Failed
                  /\ Created \subseteq dirs

\* A mount whose mount point was created and whose mount tool then exited
\* with an error: the call failed and the directory is still there.
C27_Witness ==
    /\ pc = "done" /\ call.op = "mount"
    /\ \E i \in MountIdx : trace[i].what = "fail"
    /\ Created # {}
    /\ Created \subseteq dirs
    /\ Failed

\* The formatting was refused as an unsupported file system type.
UnsupportedFailure ==
    Failed /\ StartsWith(result[2], "unsupported file system type")

\* C30: every allow-listed file system type (ntfs, exfat, ext4, ext3, ext2,
\* fat32, vfat, refs) has a formatting tool: for a valid, non-protected
\* target and an allow-listed type whose tool is available, format_disk
\* never returns an unsupported-file-system failure.
C30_AllowListedTypeHasTool ==
    /\ pc = "done" /\ call.op = "format"
    /\ _is_valid_path(call.path) /\ ~_is_system_directory(call.path)
    /\ InList(call.fs_type, allowed_fs_types)
    /\ call.which_st = "ok" /\ call.mkfs_st # "missing"
    => ~UnsupportedFailure

(***************************************************************************)
(* Monotonicity of the score                                               *)
(***************************************************************************)

\* The values a counter of the reports can be raised to.
AttributeCounts(name) == {v[1] : v \in AttributeValues[name] \ {<<>>}}

SataCounts ==
    UNION {{d[1][k][2] : k \in DOMAIN d[1]} : d \in SataErrorDicts \ {<<>>}}

\* The reports that differ from the assessed one in one attribute value or
\* one SATA counter, which is larger.
RaisedReports ==
    {[Info EXCEPT !.attributes[k][2] = v] :
        k \in DOMAIN AttributeItems, v \in UNION {AttributeCounts(n) : n \in DOMAIN AttributeValues}}
    \cup {[Info EXCEPT !.sata_errors[k][2] = v] : k \in DOMAIN SataItems, v \in SataCounts}

OneLarger ==
    {r \in RaisedReports :
        \/ \E k \in DOMAIN AttributeItems :
              /\ r.attributes[k][2] > AttributeItems[k][2]
              /\ r.attributes[k][2] \in AttributeCounts(AttributeItems[k][1])
        \/ \E k \in DOMAIN SataItems : r.sata_errors[k][2] > SataItems[k][2]}

\* Normal is healthier than Degraded, Degraded healthier than Failing.
Rank(status) == IF status = "Normal" THEN 2 ELSE IF status = "Degraded" THEN 1 ELSE 0

\* The assessment of another report by the same analyzer.
Assessment(report) == _determine_health_status(report, smart_thresholds).health_status

\* C28: the score is monotone: of two reports with S.M.A.R.T. support that
\* are the same except for one attribute value or one SATA counter that is
\* larger in the second, the second has a score that is not higher and a
\* status that is not healthier (Normal > Degraded > Failing).
C28_ScoreMonotone ==
    Assessing /\ Supported =>
        \A second \in OneLarger :
            /\ Assessment(second).score <= result.score
            /\ Rank(Assessment(second).status) <= Rank(result.status)

\* A Normal report of which one raised attribute makes a Degraded one, and
\* of which a raised SATA counter lowers the score.
C28_Witness ==
    /\ Assessing /\ Supported
    /\ result.status = "Normal"
    /\ \E second \in OneLarger :
          /\ second.attributes # Info.attributes
          /\ Assessment(second).status = "Degraded"
    /\ \E second \in OneLarger :
          /\ second.attributes = Info.attributes
          /\ Assessment(second).score < result.score

(***************************************************************************)
(* Properties of get_mounted_disks                                         *)
(***************************************************************************)

\* The paths of the descriptors in a list.
PathsOf(list) == {list[k].path : k \in 1..Len(list)}

\* C29: no descriptor returned by get_mounted_disks, disk or partition, has
\* a mount point equal to or nested under a protected system directory, and
\* the mounted and the unmounted list made from the same report never hold
\* the same device.
C29_MountedOutsideProtected ==
    (pc = "done" /\ call.op = "get_mounted_disks" /\ raised = "" /\ WellFormed) =>
        /\ \A k \in 1..Len(result) : ~_is_system_directory(result[k].mountpoint)
        /\ PathsOf(result) \cap PathsOf(unmounted_disks(Report, 1)) = {}

(***************************************************************************)
(* Properties of the worker threads                                        *)
(***************************************************************************)

\* The thread has its tool running on the device.
ToolRunning(w, op, device_path) ==
    /\ workers[w].pc = "running"
    /\ workers[w].op = op
    /\ workers[w].device_path = device_path

\* The thread found the mount point absent and failed to create it because
\* another thread had created it in between.
LostTheRace(w) ==
    /\ workers[w].pc = "done"
    /\ workers[w].op = "mount"
    /\ workers[w].result[2] = "failed to create the mount point: FileExistsError"

CompletedCalls ==
    LET upto[k \in 0..NumWorkers] == IF k = 0 THEN 0 ELSE upto[k - 1] + workers[k].calls
    IN  upto[NumWorkers]

\* C26: concurrent operations share no mutable state; after any
\* interleaving of N logging calls made through the shared logger, the call
\* counter of the logger and the length of its message list both equal N.
C26_LoggerCounts ==
    (\A w \in Workers : workers[w].pc = "idle") =>
        /\ logger._call_count = CompletedCalls
        /\ Len(logger.messages) = CompletedCalls

====
